---- MODULE Spec2Model ----
(***************************************************************************)
(* Inverse text normalisation of python-service: english_itn.py,           *)
(* japanese_itn.py and multilingual_itn.py, as state machines over texts.  *)
(*                                                                         *)
(* A text is a sequence of characters.  An ASCII character is the          *)
(* one-character string of itself; a Japanese character, which a TLA+      *)
(* string cannot hold, is a string naming it (the legend is with the       *)
(* Japanese tables).  Chars("three") is the text 'three'.                  *)
(***************************************************************************)
EXTENDS Integers, Sequences, FiniteSets, TLC

VARIABLES
    conv,     \* the converter called: "english" or "japanese"
    orig,     \* the argument of the first call
    arg,      \* the argument `text` of the call in progress
    text,     \* the local variable `text` of the call in progress
    pc,       \* the statement the call is at
    calls,    \* the number of calls that have returned
    entry,    \* what the client called: "converter", "detect_language", "process"
    available,      \* MultilingualITN: the three availability flags
    hint,           \* process: the argument `language`
    language,       \* process: the local variable `language`
    ptext,          \* process, detect_language: the local variable `text`
    original_text,  \* process: the argument `text`, kept for the log line
    ppc,            \* process, detect_language: the statement the call is at
    stage,          \* process: the converter the mixed chain is at
    ran,            \* process: the converters run so far, in order
    logged,         \* process: whether the log line was printed
    label,          \* detect_language: what it returned
    request,        \* concurrent callers: the arguments of each caller's call
    frames,         \* concurrent callers: the local variables of process
    at,             \* concurrent callers: the statement each call is at
    returned,       \* concurrent callers: what each call returned
    evaluated,      \* calculate_en_value: the integer it returned
    model,          \* server: the global model, "None" until it is loaded
    SEMAPHORE,      \* server: the value of asyncio.Semaphore(3)
    handler,        \* server: where each request's handler stands
    response        \* server: the status each request was answered with

\* the variables of a converter call
cvars == <<conv, orig, arg, text, pc, calls>>

\* the variables of the orchestrator
pvars == <<entry, available, hint, language, ptext, original_text, ppc, stage,
           ran, logged, label>>

\* the variables of the concurrent callers
tvars == <<request, frames, at, returned>>

vars == <<conv, orig, arg, text, pc, calls, entry, available, hint, language,
          ptext, original_text, ppc, stage, ran, logged, label, request,
          frames, at, returned, evaluated, model, SEMAPHORE, handler,
          response>>

\* the variables of the server
svars == <<model, SEMAPHORE, handler, response>>

\* the variables of the other functions and of the server
xvars == <<evaluated, svars>>

----------------------------------------------------------------------------
(* Python's str and re primitives, on texts. *)

Chars(s) == [i \in 1..Len(s) |-> SubSeq(s, i, i)]

UpperLetters == Chars("ABCDEFGHIJKLMNOPQRSTUVWXYZ")
LowerLetters == Chars("abcdefghijklmnopqrstuvwxyz")
DigitChars == Chars("0123456789")

Range(f) == {f[i] : i \in DOMAIN f}

UpperSet == Range(UpperLetters)
LetterSet == Range(UpperLetters) \cup Range(LowerLetters)
DigitSet == Range(DigitChars)

\* [a-zA-Z]; under re.IGNORECASE [a-z] matches the same characters
IsAsciiLetter(c) == c \in LetterSet

\* \s
IsSpace(c) == c \in {" ", "\t", "\n"}

\* a Japanese character: the strings longer than one character name them
IsNamed(c) == Len(c) > 1

\* \w: letters, digits and '_' of any script; of the named characters all
\* but the middle dot (U+30FB, punctuation)
IsWordChar(c) ==
    \/ IsAsciiLetter(c)
    \/ c \in DigitSet
    \/ c = "_"
    \/ IsNamed(c) /\ c # "k_mid"

\* \b before position i: a word character on exactly one side
WordBoundary(t, i) ==
    (i - 1 >= 1 /\ i - 1 <= Len(t) /\ IsWordChar(t[i - 1]))
        # (i >= 1 /\ i <= Len(t) /\ IsWordChar(t[i]))

\* str.lower() of an upper-case letter
LowerOf == [c \in UpperSet |-> LowerLetters[CHOOSE i \in 1..26 : UpperLetters[i] = c]]

\* str.lower() of one character
LowerChar(c) == IF c \in UpperSet THEN LowerOf[c] ELSE c

\* str.lower()
lower(t) == [i \in 1..Len(t) |-> LowerChar(t[i])]

\* t[i:] begins with w (positions from 1)
StartsWithAt(t, i, w) ==
    /\ i >= 1
    /\ i + Len(w) - 1 <= Len(t)
    /\ SubSeq(t, i, i + Len(w) - 1) = w

\* the same under re.IGNORECASE, for a lower-case w
StartsWithAtIgnoreCase(t, i, w) ==
    /\ i >= 1
    /\ i + Len(w) - 1 <= Len(t)
    /\ lower(SubSeq(t, i, i + Len(w) - 1)) = w

\* w in t
Contains(t, w) == \E i \in 1..Len(t) : StartsWithAt(t, i, w)

\* the position after the run of whitespace that starts at i (i itself when
\* t[i] is no whitespace): where a greedy \s* or \s+ ends
RECURSIVE SkipSpaces(_, _)
SkipSpaces(t, i) ==
    IF i <= Len(t) /\ IsSpace(t[i]) THEN SkipSpaces(t, i + 1) ELSE i

\* the position after the run of non-whitespace that starts at i
RECURSIVE SkipWord(_, _)
SkipWord(t, i) ==
    IF i <= Len(t) /\ ~IsSpace(t[i]) THEN SkipWord(t, i + 1) ELSE i

\* str.split(): the maximal runs of non-whitespace, in order
RECURSIVE SplitFrom(_, _)
SplitFrom(t, i) ==
    LET s == SkipSpaces(t, i)
        e == SkipWord(t, s)
    IN  IF s > Len(t) THEN <<>>
        ELSE <<SubSeq(t, s, e - 1)>> \o SplitFrom(t, e)

split(t) == SplitFrom(t, 1)

\* str.strip()
RECURSIVE StripRight(_)
StripRight(t) ==
    IF t # <<>> /\ IsSpace(t[Len(t)])
    THEN StripRight(SubSeq(t, 1, Len(t) - 1))
    ELSE t

strip(t) == StripRight(SubSeq(t, SkipSpaces(t, 1), Len(t)))

Min(S) == CHOOSE x \in S : \A y \in S : x <= y
Max(S) == CHOOSE x \in S : \A y \in S : x >= y

\* the first alternative, of n tried in order, that matches (0: none does)
FirstOf(n, Matches(_)) ==
    LET S == {k \in 1..n : Matches(k)} IN IF S = {} THEN 0 ELSE Min(S)

\* str(n) for n >= 0
str(n) == Chars(ToString(n))

\* f"{n:02d}" for n >= 0
pad2(n) == IF n < 10 THEN <<"0">> \o str(n) ELSE str(n)

----------------------------------------------------------------------------
(* english_itn.py *)

\* 10^12, the value of 'trillion', is beyond TLC's integers.  The table holds
\* -1 in its place, which is the value of no word, and calculate_en_value
\* multiplies by the overflowing product 10^6 * 10^6: the value of a text with
\* 'trillion' is an evaluation error, never a wrong number.  No input of the
\* model holds the word.
trillion == -1

en_num_mapper ==
    Chars("zero") :> Chars("0") @@ Chars("one") :> Chars("1") @@ Chars("two") :> Chars("2") @@
    Chars("three") :> Chars("3") @@ Chars("four") :> Chars("4") @@ Chars("five") :> Chars("5") @@
    Chars("six") :> Chars("6") @@ Chars("seven") :> Chars("7") @@ Chars("eight") :> Chars("8") @@
    Chars("nine") :> Chars("9") @@ Chars("ten") :> Chars("10") @@ Chars("eleven") :> Chars("11") @@
    Chars("twelve") :> Chars("12") @@ Chars("thirteen") :> Chars("13") @@
    Chars("fourteen") :> Chars("14") @@ Chars("fifteen") :> Chars("15") @@
    Chars("sixteen") :> Chars("16") @@ Chars("seventeen") :> Chars("17") @@
    Chars("eighteen") :> Chars("18") @@ Chars("nineteen") :> Chars("19") @@
    Chars("twenty") :> Chars("20") @@ Chars("thirty") :> Chars("30") @@
    Chars("forty") :> Chars("40") @@ Chars("fifty") :> Chars("50") @@
    Chars("sixty") :> Chars("60") @@ Chars("seventy") :> Chars("70") @@
    Chars("eighty") :> Chars("80") @@ Chars("ninety") :> Chars("90") @@
    Chars("point") :> Chars(".") @@ Chars("dot") :> Chars(".")

en_value_mapper ==
    Chars("zero") :> 0 @@ Chars("one") :> 1 @@ Chars("two") :> 2 @@
    Chars("three") :> 3 @@ Chars("four") :> 4 @@ Chars("five") :> 5 @@
    Chars("six") :> 6 @@ Chars("seven") :> 7 @@ Chars("eight") :> 8 @@
    Chars("nine") :> 9 @@ Chars("ten") :> 10 @@ Chars("eleven") :> 11 @@
    Chars("twelve") :> 12 @@ Chars("thirteen") :> 13 @@
    Chars("fourteen") :> 14 @@ Chars("fifteen") :> 15 @@
    Chars("sixteen") :> 16 @@ Chars("seventeen") :> 17 @@
    Chars("eighteen") :> 18 @@ Chars("nineteen") :> 19 @@
    Chars("twenty") :> 20 @@ Chars("thirty") :> 30 @@
    Chars("forty") :> 40 @@ Chars("fifty") :> 50 @@
    Chars("sixty") :> 60 @@ Chars("seventy") :> 70 @@
    Chars("eighty") :> 80 @@ Chars("ninety") :> 90 @@
    Chars("hundred") :> 100 @@ Chars("thousand") :> 1000 @@
    Chars("million") :> 1000000 @@ Chars("billion") :> 1000000000 @@
    Chars("trillion") :> trillion

en_idioms == <<
    Chars("one way or another"), Chars("two peas in a pod"),
    Chars("three strikes"), Chars("four leaf clover"), Chars("high five"),
    Chars("six feet under"), Chars("seven seas"),
    Chars("behind the eight ball"), Chars("nine lives"),
    Chars("perfect ten"), Chars("eleven o'clock"), Chars("twelve apostles") >>

\* a scale word that takes what is before it as it is
or_one_strict(n) == n

\* `current if current > 0 else 1`: a scale word with nothing before it
\* counts once
or_one(n) == IF n > 0 THEN n ELSE 1

\* the loop of calculate_en_value over the words left
RECURSIVE calculate_en_loop(_, _, _)
calculate_en_loop(words, total, current) ==
    IF words = <<>> THEN total + current
    ELSE LET word == Head(words)
             rest == Tail(words)
         IN  IF word \in DOMAIN en_value_mapper
             THEN LET value == en_value_mapper[word]
                      group == or_one(current)
                  IN  IF value = 100
                      THEN calculate_en_loop(rest, total, group * 100)
                      ELSE IF value = 1000
                      THEN calculate_en_loop(rest, (total + group) * 1000, 0)
                      ELSE IF value = 1000000
                      THEN calculate_en_loop(rest, (total + group) * 1000000, 0)
                      ELSE IF value = 1000000000
                      THEN calculate_en_loop(rest, (total + group) * 1000000000, 0)
                      ELSE IF value = trillion
                      THEN calculate_en_loop(rest, (total + group) * (1000000 * 1000000), 0)
                      ELSE calculate_en_loop(rest, total, current + value)
             ELSE calculate_en_loop(rest, total, current)

calculate_en_value(t) == calculate_en_loop(split(lower(t)), 0, 0)

\* re.split(r'\s*(?:point|dot)\s*', t) from position i: a separator is the
\* whitespace before the word (the leftmost match starts there), the word and
\* the whitespace after it
IsDecimalWordAt(t, i) ==
    StartsWithAt(t, i, Chars("point")) \/ StartsWithAt(t, i, Chars("dot"))

DecimalWordEnd(t, i) ==
    IF StartsWithAt(t, i, Chars("point")) THEN i + 5 ELSE i + 3

RECURSIVE re_split_decimal(_, _, _)
re_split_decimal(t, from, i) ==
    IF i > Len(t) THEN <<SubSeq(t, from, Len(t))>>
    ELSE IF IsDecimalWordAt(t, SkipSpaces(t, i))
    THEN LET e == SkipSpaces(t, DecimalWordEnd(t, SkipSpaces(t, i)))
         IN  <<SubSeq(t, from, i - 1)>> \o re_split_decimal(t, e, e)
    ELSE re_split_decimal(t, from, i + 1)

\* the digits of the words after the decimal marker
RECURSIVE decimal_digits(_)
decimal_digits(decimal_words) ==
    IF decimal_words = <<>> THEN <<>>
    ELSE LET word == Head(decimal_words)
         IN  (IF /\ word \in DOMAIN en_num_mapper
                 /\ word \notin {Chars("point"), Chars("dot")}
              THEN en_num_mapper[word] ELSE <<>>)
             \o decimal_digits(Tail(decimal_words))

convert_en_value_num(t) ==
    LET text_lower == lower(t)
    IN  IF Contains(text_lower, Chars("point")) \/ Contains(text_lower, Chars("dot"))
        THEN LET parts == re_split_decimal(text_lower, 1, 1)
                 integer_part == IF strip(parts[1]) # <<>> THEN strip(parts[1])
                                 ELSE Chars("zero")
                 decimal_part == IF Len(parts) > 1 THEN strip(parts[2]) ELSE <<>>
                 integer_value == calculate_en_value(integer_part)
                 decimal_str == decimal_digits(split(decimal_part))
             IN  IF decimal_str # <<>>
                 THEN str(integer_value) \o <<".">> \o decimal_str
                 ELSE str(integer_value)
        ELSE str(calculate_en_value(t))

\* ([a-zA-Z\s]+)\s+percent, re.IGNORECASE ---------------------------------

IsLetterOrSpace(c) == IsAsciiLetter(c) \/ IsSpace(c)

\* the position after the run of [a-zA-Z\s] that starts at i
RECURSIVE SkipLettersAndSpaces(_, _)
SkipLettersAndSpaces(t, i) ==
    IF i <= Len(t) /\ IsLetterOrSpace(t[i])
    THEN SkipLettersAndSpaces(t, i + 1) ELSE i

\* where group 1 of a match starting at i ends (the position after it), 0
\* when no match starts at i.  Group 1 is greedy: it ends at the last
\* position of its run that is followed by whitespace and 'percent'; the \s+
\* takes the whole whitespace, since 'percent' begins with none.
percent_group_end(t, i) ==
    LET ends == {j \in (i + 1)..(SkipLettersAndSpaces(t, i) - 1) :
                    /\ IsSpace(t[j])
                    /\ StartsWithAtIgnoreCase(t, SkipSpaces(t, j), Chars("percent"))}
    IN  IF ends = {} THEN 0 ELSE Max(ends)

percent_match_end(t, i) == SkipSpaces(t, percent_group_end(t, i)) + 7

\* re.search: the leftmost position a match starts at, 0 when there is none
percent_search(t) ==
    LET starts == {i \in 1..Len(t) : percent_group_end(t, i) # 0}
    IN  IF starts = {} THEN 0 ELSE Min(starts)

\* re.sub(pattern, percentage, t) from position i: every match, left to
\* right and not overlapping, becomes the one string `percentage`
RECURSIVE percent_sub(_, _, _)
percent_sub(t, i, percentage) ==
    IF i > Len(t) THEN <<>>
    ELSE IF percent_group_end(t, i) # 0
    THEN percentage \o percent_sub(t, percent_match_end(t, i), percentage)
    ELSE <<t[i]>> \o percent_sub(t, i + 1, percentage)

convert_en_percent(t) ==
    LET start == percent_search(t)
    IN  IF start # 0
        THEN LET num_part == strip(SubSeq(t, start, percent_group_end(t, start) - 1))
                 percentage == convert_en_value_num(num_part) \o <<"%">>
             IN  percent_sub(t, 1, percentage)
        ELSE t

\* convert_en_time --------------------------------------------------------

\* the alternatives of group 1 of time_pattern, in the pattern's order
time_hours == <<
    Chars("one"), Chars("two"), Chars("three"), Chars("four"), Chars("five"),
    Chars("six"), Chars("seven"), Chars("eight"), Chars("nine"), Chars("ten"),
    Chars("eleven"), Chars("twelve") >>

\* the literal alternatives of group 2, in the pattern's order; [a-z]+ follows
time_minutes == <<
    Chars("o'clock"), Chars("thirty"), Chars("fifteen"), Chars("forty five") >>

\* the position after the run of [a-z] (re.IGNORECASE) that starts at i
RECURSIVE SkipLetters(_, _)
SkipLetters(t, i) ==
    IF i <= Len(t) /\ IsAsciiLetter(t[i]) THEN SkipLetters(t, i + 1) ELSE i

\* the position after group 2 matched at s and followed by \b, 0 when no
\* alternative matches: the literals in order, then [a-z]+, whose run of
\* letters must end at a word boundary (it cannot end earlier, between two
\* letters)
time_minute_end(t, s) ==
    LET k == FirstOf(Len(time_minutes), LAMBDA a :
                 /\ StartsWithAtIgnoreCase(t, s, time_minutes[a])
                 /\ WordBoundary(t, s + Len(time_minutes[a])))
        e == SkipLetters(t, s)
    IN  IF k # 0 THEN s + Len(time_minutes[k])
        ELSE IF e > s /\ WordBoundary(t, e) THEN e
        ELSE 0

\* the hour alternative of a match of time_pattern starting at i, 0 when no
\* match starts at i: \b, an hour word, whitespace (all of it: group 2
\* begins with none) and group 2
time_hour_at(t, i) ==
    IF ~WordBoundary(t, i) THEN 0
    ELSE FirstOf(Len(time_hours), LAMBDA h :
             LET e == i + Len(time_hours[h])
             IN  /\ StartsWithAtIgnoreCase(t, i, time_hours[h])
                 /\ e <= Len(t) /\ IsSpace(t[e])
                 /\ time_minute_end(t, SkipSpaces(t, e)) # 0)

\* where group 2 starts and where it ends, in a match whose group 1 is the
\* hour alternative h at i
time_minute_start(t, i, h) == SkipSpaces(t, i + Len(time_hours[h]))

time_match_end(t, i, h) == time_minute_end(t, time_minute_start(t, i, h))

\* time_replace(match), for the match at i with the hour alternative h; the
\* groups are compared and looked up as they were written, in their own
\* letter case
time_replace(t, i, h) ==
    LET e == time_match_end(t, i, h)
        hour_word == SubSeq(t, i, i + Len(time_hours[h]) - 1)
        minute_word == SubSeq(t, time_minute_start(t, i, h), e - 1)
        hour == en_value_mapper[hour_word]
    IN  IF hour_word \in DOMAIN en_value_mapper
        THEN IF minute_word = Chars("o'clock") THEN str(hour) \o Chars(":00")
             ELSE IF minute_word = Chars("thirty") THEN str(hour) \o Chars(":30")
             ELSE IF minute_word = Chars("fifteen") THEN str(hour) \o Chars(":15")
             ELSE IF minute_word = Chars("forty five") THEN str(hour) \o Chars(":45")
             ELSE IF minute_word \in DOMAIN en_value_mapper
             THEN str(hour) \o <<":">> \o pad2(en_value_mapper[minute_word])
             ELSE SubSeq(t, i, e - 1)
        ELSE SubSeq(t, i, e - 1)

\* re.sub(time_pattern, time_replace, t, flags=re.IGNORECASE) from position i
RECURSIVE time_sub(_, _)
time_sub(t, i) ==
    IF i > Len(t) THEN <<>>
    ELSE LET h == time_hour_at(t, i)
         IN  IF h # 0
             THEN time_replace(t, i, h) \o time_sub(t, time_match_end(t, i, h))
             ELSE <<t[i]>> \o time_sub(t, i + 1)

convert_en_time(t) == time_sub(t, 1)

\* convert_en_ordinal -----------------------------------------------------

\* the items of ordinal_map, in the order of the dictionary
ordinal_map == <<
    <<Chars("first"), Chars("1st")>>, <<Chars("second"), Chars("2nd")>>,
    <<Chars("third"), Chars("3rd")>>, <<Chars("fourth"), Chars("4th")>>,
    <<Chars("fifth"), Chars("5th")>>, <<Chars("sixth"), Chars("6th")>>,
    <<Chars("seventh"), Chars("7th")>>, <<Chars("eighth"), Chars("8th")>>,
    <<Chars("ninth"), Chars("9th")>>, <<Chars("tenth"), Chars("10th")>>,
    <<Chars("eleventh"), Chars("11th")>>, <<Chars("twelfth"), Chars("12th")>>,
    <<Chars("thirteenth"), Chars("13th")>>, <<Chars("fourteenth"), Chars("14th")>>,
    <<Chars("fifteenth"), Chars("15th")>>, <<Chars("sixteenth"), Chars("16th")>>,
    <<Chars("seventeenth"), Chars("17th")>>, <<Chars("eighteenth"), Chars("18th")>>,
    <<Chars("nineteenth"), Chars("19th")>>, <<Chars("twentieth"), Chars("20th")>>,
    <<Chars("thirtieth"), Chars("30th")>> >>

\* \b ordinal \b without re.IGNORECASE
ordinal_at_cased(t, i, ordinal) ==
    /\ WordBoundary(t, i)
    /\ StartsWithAt(t, i, ordinal)
    /\ WordBoundary(t, i + Len(ordinal))

\* \b ordinal \b matches at i
ordinal_at(t, i, ordinal) ==
    /\ WordBoundary(t, i)
    /\ StartsWithAtIgnoreCase(t, i, ordinal)
    /\ WordBoundary(t, i + Len(ordinal))

\* re.sub(r'\b' + ordinal + r'\b', number, t, flags=re.IGNORECASE) from i
RECURSIVE ordinal_sub(_, _, _, _)
ordinal_sub(t, i, ordinal, number) ==
    IF i > Len(t) THEN <<>>
    ELSE IF ordinal_at(t, i, ordinal)
    THEN number \o ordinal_sub(t, i + Len(ordinal), ordinal, number)
    ELSE <<t[i]>> \o ordinal_sub(t, i + 1, ordinal, number)

\* the loop over ordinal_map.items(), from item k on
RECURSIVE ordinal_loop(_, _)
ordinal_loop(result, k) ==
    IF k > Len(ordinal_map) THEN result
    ELSE ordinal_loop(ordinal_sub(result, 1, ordinal_map[k][1], ordinal_map[k][2]), k + 1)

convert_en_ordinal(t) == ordinal_loop(t, 1)

\* english_to_num ---------------------------------------------------------

\* the alternatives of `pattern` with 'ninety' left out
pattern_words_short == <<
    Chars("zero"), Chars("one"), Chars("two"), Chars("three"), Chars("four"),
    Chars("five"), Chars("six"), Chars("seven"), Chars("eight"), Chars("nine"),
    Chars("ten"), Chars("eleven"), Chars("twelve"), Chars("thirteen"),
    Chars("fourteen"), Chars("fifteen"), Chars("sixteen"), Chars("seventeen"),
    Chars("eighteen"), Chars("nineteen"), Chars("twenty"), Chars("thirty"),
    Chars("forty"), Chars("fifty"), Chars("sixty"), Chars("seventy"),
    Chars("eighty"), Chars("hundred"), Chars("thousand"),
    Chars("million"), Chars("billion"), Chars("trillion"), Chars("point"),
    Chars("dot") >>

\* the alternatives of a number word in `pattern`, in the pattern's order
pattern_words == <<
    Chars("zero"), Chars("one"), Chars("two"), Chars("three"), Chars("four"),
    Chars("five"), Chars("six"), Chars("seven"), Chars("eight"), Chars("nine"),
    Chars("ten"), Chars("eleven"), Chars("twelve"), Chars("thirteen"),
    Chars("fourteen"), Chars("fifteen"), Chars("sixteen"), Chars("seventeen"),
    Chars("eighteen"), Chars("nineteen"), Chars("twenty"), Chars("thirty"),
    Chars("forty"), Chars("fifty"), Chars("sixty"), Chars("seventy"),
    Chars("eighty"), Chars("ninety"), Chars("hundred"), Chars("thousand"),
    Chars("million"), Chars("billion"), Chars("trillion"), Chars("point"),
    Chars("dot") >>

\* the end of (?:\s+word)*\b matched from position e, which follows a word;
\* 0 when it cannot match.  As the regex engine does: first one more
\* repetition (the whole whitespace, then the alternatives in order, each
\* with what follows it), and with none succeeding, no repetition and \b.
RECURSIVE pattern_rest_end(_, _)
pattern_rest_end(t, e) ==
    LET s == SkipSpaces(t, e)
        k == IF s = e THEN 0
             ELSE FirstOf(Len(pattern_words), LAMBDA w :
                      /\ StartsWithAtIgnoreCase(t, s, pattern_words[w])
                      /\ pattern_rest_end(t, s + Len(pattern_words[w])) # 0)
    IN  IF k # 0 THEN pattern_rest_end(t, s + Len(pattern_words[k]))
        ELSE IF WordBoundary(t, e) THEN e
        ELSE 0

\* the end of the match of `pattern` that starts at i, 0 when none does
pattern_match_end(t, i) ==
    IF ~WordBoundary(t, i) THEN 0
    ELSE LET k == FirstOf(Len(pattern_words), LAMBDA w :
                      /\ StartsWithAtIgnoreCase(t, i, pattern_words[w])
                      /\ pattern_rest_end(t, i + Len(pattern_words[w])) # 0)
         IN  IF k = 0 THEN 0
             ELSE pattern_rest_end(t, i + Len(pattern_words[k]))

\* replace_match that converts single words alone
replace_match_single(matched_text) ==
    IF /\ Len(split(matched_text)) = 1
       /\ lower(matched_text) \in DOMAIN en_num_mapper
    THEN en_num_mapper[lower(matched_text)]
    ELSE matched_text

replace_match(matched_text) ==
    IF \/ Contains(lower(matched_text), Chars("point"))
       \/ Contains(lower(matched_text), Chars("dot"))
    THEN convert_en_value_num(matched_text)
    ELSE IF /\ Len(split(matched_text)) = 1
            /\ lower(matched_text) \in DOMAIN en_num_mapper
    THEN en_num_mapper[lower(matched_text)]
    ELSE convert_en_value_num(matched_text)

\* re.sub(pattern, replace_match, t, count=1, flags=re.IGNORECASE) from i: the
\* first match alone is replaced
RECURSIVE pattern_sub_first(_, _)
pattern_sub_first(t, i) ==
    IF i > Len(t) THEN <<>>
    ELSE LET e == pattern_match_end(t, i)
         IN  IF e # 0
             THEN replace_match(SubSeq(t, i, e - 1)) \o SubSeq(t, e, Len(t))
             ELSE <<t[i]>> \o pattern_sub_first(t, i + 1)

\* re.sub(pattern, replace_match, t, flags=re.IGNORECASE) from position i
RECURSIVE pattern_sub(_, _)
pattern_sub(t, i) ==
    IF i > Len(t) THEN <<>>
    ELSE LET e == pattern_match_end(t, i)
         IN  IF e # 0
             THEN replace_match(SubSeq(t, i, e - 1)) \o pattern_sub(t, e)
             ELSE <<t[i]>> \o pattern_sub(t, i + 1)

\* the idiom check on `text` in place of `text_lower`
has_en_idiom_cased(t) ==
    \E k \in 1..Len(en_idioms) : Contains(t, en_idioms[k])

\* `idiom in text_lower` for some idiom of en_idioms
has_en_idiom(t) ==
    \E k \in 1..Len(en_idioms) : Contains(lower(t), en_idioms[k])

\* english_to_num as one function, the composition its statements compute
english_to_num(t) ==
    IF t = <<>> THEN t
    ELSE IF has_en_idiom(t) THEN t
    ELSE pattern_sub(convert_en_ordinal(convert_en_time(convert_en_percent(t))), 1)

----------------------------------------------------------------------------
(* japanese_itn.py *)

\* The names of the Japanese characters: K_ a kanji, D_ a formal (daiji)
\* numeral, h_ a hiragana, k_ a katakana.
\*   K_rei 零, K_maru 〇, K_1 一, K_2 二, K_3 三, K_4 四, K_5 五, K_6 六, K_7 七,
\*   K_8 八, K_9 九, K_10 十, K_100 百, K_1000 千, K_man 万, K_oku 億, D_1 壱, D_2 弐,
\*   D_3 参, D_4 肆, D_5 伍, D_6 陸, D_7 漆, D_8 捌, D_9 玖, D_10 拾, K_ji 時, K_fun 分,
\*   K_ten 点, k_mid ・, h_i い, h_chi ち, h_ni に, h_sa さ, h_n ん, h_yo よ, h_go ご,
\*   h_ro ろ, h_ku く, h_na な, h_ha は, h_ki き, h_yu ゅ, h_u う, h_ji じ, h_hi ひ,
\*   h_ya ゃ, h_se せ, h_ma ま, h_o お, h_shi し, h_de で, h_su す, k_i イ, k_chi チ,
\*   k_ni ニ, k_sa サ, k_n ン, k_yo ヨ, k_go ゴ, k_ro ロ, k_ku ク, k_na ナ, k_ha ハ,
\*   k_ki キ, k_yu ュ, k_u ウ, k_ji ジ, k_hi ヒ, k_ya ャ, k_se セ, k_ma マ, k_o オ,
\*   k_shi シ, k_ze ゼ, k_pa パ, k_bar ー, k_to ト, K_ki 期, K_e 会, K_nin 人,
\*   K_iro 色, K_seki 石, K_cho 鳥, K_soku 束, K_mon 文, K_kan 寒, K_on 温, K_men 面,
\*   K_so 楚, K_ka 歌, K_ri 里, K_mu 霧, K_chu 中, K_ko 甲, K_dai 台, K_korobu 転,
\*   K_to 倒, K_ho 方, K_bi 美, K_shi 死, K_sei 生, K_yaku 約, K_ima 今, K_hi 日,
\*   K_no 之

jp_num_mapper ==
    <<"K_rei">> :> <<"0">> @@ <<"K_maru">> :> <<"0">> @@
    <<"k_ze", "k_ro">> :> <<"0">> @@ <<"K_1">> :> <<"1">> @@
    <<"D_1">> :> <<"1">> @@ <<"h_i", "h_chi">> :> <<"1">> @@
    <<"k_i", "k_chi">> :> <<"1">> @@ <<"K_2">> :> <<"2">> @@
    <<"D_2">> :> <<"2">> @@ <<"h_ni">> :> <<"2">> @@ <<"k_ni">> :> <<"2">> @@
    <<"K_3">> :> <<"3">> @@ <<"D_3">> :> <<"3">> @@
    <<"h_sa", "h_n">> :> <<"3">> @@ <<"k_sa", "k_n">> :> <<"3">> @@
    <<"K_4">> :> <<"4">> @@ <<"D_4">> :> <<"4">> @@
    <<"h_yo", "h_n">> :> <<"4">> @@ <<"k_yo", "k_n">> :> <<"4">> @@
    <<"h_shi">> :> <<"4">> @@ <<"k_shi">> :> <<"4">> @@
    <<"K_5">> :> <<"5">> @@ <<"D_5">> :> <<"5">> @@ <<"h_go">> :> <<"5">> @@
    <<"k_go">> :> <<"5">> @@ <<"K_6">> :> <<"6">> @@ <<"D_6">> :> <<"6">> @@
    <<"h_ro", "h_ku">> :> <<"6">> @@ <<"k_ro", "k_ku">> :> <<"6">> @@
    <<"K_7">> :> <<"7">> @@ <<"D_7">> :> <<"7">> @@
    <<"h_na", "h_na">> :> <<"7">> @@ <<"k_na", "k_na">> :> <<"7">> @@
    <<"h_shi", "h_chi">> :> <<"7">> @@ <<"k_shi", "k_chi">> :> <<"7">> @@
    <<"K_8">> :> <<"8">> @@ <<"D_8">> :> <<"8">> @@
    <<"h_ha", "h_chi">> :> <<"8">> @@ <<"k_ha", "k_chi">> :> <<"8">> @@
    <<"K_9">> :> <<"9">> @@ <<"D_9">> :> <<"9">> @@
    <<"h_ki", "h_yu", "h_u">> :> <<"9">> @@
    <<"k_ki", "k_yu", "k_u">> :> <<"9">> @@ <<"h_ku">> :> <<"9">> @@
    <<"k_ku">> :> <<"9">> @@ <<"K_ten">> :> <<".">> @@ <<"k_mid">> :> <<".">>

jp_value_mapper ==
    <<"K_rei">> :> 0 @@ <<"K_maru">> :> 0 @@ <<"k_ze", "k_ro">> :> 0 @@
    <<"K_1">> :> 1 @@ <<"D_1">> :> 1 @@ <<"h_i", "h_chi">> :> 1 @@
    <<"k_i", "k_chi">> :> 1 @@ <<"K_2">> :> 2 @@ <<"D_2">> :> 2 @@
    <<"h_ni">> :> 2 @@ <<"k_ni">> :> 2 @@ <<"K_3">> :> 3 @@ <<"D_3">> :> 3 @@
    <<"h_sa", "h_n">> :> 3 @@ <<"k_sa", "k_n">> :> 3 @@ <<"K_4">> :> 4 @@
    <<"D_4">> :> 4 @@ <<"h_yo", "h_n">> :> 4 @@ <<"k_yo", "k_n">> :> 4 @@
    <<"h_shi">> :> 4 @@ <<"k_shi">> :> 4 @@ <<"K_5">> :> 5 @@
    <<"D_5">> :> 5 @@ <<"h_go">> :> 5 @@ <<"k_go">> :> 5 @@ <<"K_6">> :> 6 @@
    <<"D_6">> :> 6 @@ <<"h_ro", "h_ku">> :> 6 @@ <<"k_ro", "k_ku">> :> 6 @@
    <<"K_7">> :> 7 @@ <<"D_7">> :> 7 @@ <<"h_na", "h_na">> :> 7 @@
    <<"k_na", "k_na">> :> 7 @@ <<"h_shi", "h_chi">> :> 7 @@
    <<"k_shi", "k_chi">> :> 7 @@ <<"K_8">> :> 8 @@ <<"D_8">> :> 8 @@
    <<"h_ha", "h_chi">> :> 8 @@ <<"k_ha", "k_chi">> :> 8 @@ <<"K_9">> :> 9 @@
    <<"D_9">> :> 9 @@ <<"h_ki", "h_yu", "h_u">> :> 9 @@
    <<"k_ki", "k_yu", "k_u">> :> 9 @@ <<"h_ku">> :> 9 @@ <<"k_ku">> :> 9 @@
    <<"K_10">> :> 10 @@ <<"D_10">> :> 10 @@ <<"h_ji", "h_yu", "h_u">> :> 10 @@
    <<"k_ji", "k_yu", "k_u">> :> 10 @@ <<"K_100">> :> 100 @@
    <<"h_hi", "h_ya", "h_ku">> :> 100 @@ <<"k_hi", "k_ya", "k_ku">> :> 100 @@
    <<"K_1000">> :> 1000 @@ <<"h_se", "h_n">> :> 1000 @@
    <<"k_se", "k_n">> :> 1000 @@ <<"K_man">> :> 10000 @@
    <<"h_ma", "h_n">> :> 10000 @@ <<"k_ma", "k_n">> :> 10000 @@
    <<"K_oku">> :> 100000000 @@ <<"h_o", "h_ku">> :> 100000000 @@
    <<"k_o", "k_ku">> :> 100000000

jp_idioms == <<
    <<"K_1", "K_ki", "K_1", "K_e">>, <<"K_10", "K_nin", "K_10", "K_iro">>,
    <<"K_1", "K_seki", "K_2", "K_cho">>, <<"K_2", "K_soku", "K_3", "K_mon">>,
    <<"K_3", "K_kan", "K_4", "K_on">>, <<"K_4", "K_men", "K_so", "K_ka">>,
    <<"K_5", "K_ri", "K_mu", "K_chu">>, <<"K_6", "K_ko", "K_dai">>,
    <<"K_7", "K_korobu", "K_8", "K_to">>, <<"K_8", "K_ho", "K_bi", "K_nin">>,
    <<"K_9", "K_shi", "K_1", "K_sei">>, <<"K_10", "K_chu", "K_8", "K_9">> >>

convert_jp_pure_num(t) ==
    [i \in 1..Len(t) |->
        IF <<t[i]>> \in DOMAIN jp_num_mapper THEN jp_num_mapper[<<t[i]>>][1]
        ELSE t[i]]

\* the words of the branches of calculate_jp_value
jp_ten == {<<"K_10">>, <<"h_ji", "h_yu", "h_u">>, <<"k_ji", "k_yu", "k_u">>, <<"D_10">>}
jp_hundred == {<<"K_100">>, <<"h_hi", "h_ya", "h_ku">>, <<"k_hi", "k_ya", "k_ku">>}
jp_thousand == {<<"K_1000">>, <<"h_se", "h_n">>, <<"k_se", "k_n">>}
jp_man == {<<"K_man">>, <<"h_ma", "h_n">>, <<"k_ma", "k_n">>}
jp_oku == {<<"K_oku">>, <<"h_o", "h_ku">>, <<"k_o", "k_ku">>}

\* the length the `for length in [3, 2, 1]` loop stops at, at position i: the
\* longest of 3, 2, 1 for which t[i : i + length] is a key of jp_value_mapper
\* (0: none is, `matched` stays False)
jp_matched_length(t, i) ==
    LET k == FirstOf(3, LAMBDA n :
                 /\ i + (4 - n) - 1 <= Len(t)
                 /\ SubSeq(t, i, i + (4 - n) - 1) \in DOMAIN jp_value_mapper)
    IN  IF k = 0 THEN 0 ELSE 4 - k

\* the while loop of calculate_jp_value from position i
RECURSIVE calculate_jp_loop(_, _, _, _)
calculate_jp_loop(t, i, value, temp) ==
    IF i > Len(t) THEN value + temp
    ELSE LET length == jp_matched_length(t, i)
             substr == SubSeq(t, i, i + length - 1)
             char_value == jp_value_mapper[substr]
             group == or_one(temp)
         IN  IF length = 0 THEN calculate_jp_loop(t, i + 1, value, temp)
             ELSE IF substr \in jp_ten
             THEN calculate_jp_loop(t, i + length, value,
                                    IF temp = 0 THEN 10 ELSE temp * 10)
             ELSE IF substr \in jp_hundred
             THEN calculate_jp_loop(t, i + length, value, group * 100)
             ELSE IF substr \in jp_thousand
             THEN calculate_jp_loop(t, i + length, value, group * 1000)
             ELSE IF substr \in jp_man
             THEN calculate_jp_loop(t, i + length, (value + group) * 10000, 0)
             ELSE IF substr \in jp_oku
             THEN calculate_jp_loop(t, i + length, (value + group) * 100000000, 0)
             ELSE calculate_jp_loop(t, i + length, value, temp + char_value)

calculate_jp_value(t) == calculate_jp_loop(t, 1, 0, 0)

IsJpDecimalMark(c) == c \in {"K_ten", "k_mid"}

\* re.split('[点・]', t) from position i, the part in progress starting at from
RECURSIVE re_split_jp_decimal(_, _, _)
re_split_jp_decimal(t, from, i) ==
    IF i > Len(t) THEN <<SubSeq(t, from, Len(t))>>
    ELSE IF IsJpDecimalMark(t[i])
    THEN <<SubSeq(t, from, i - 1)>> \o re_split_jp_decimal(t, i + 1, i + 1)
    ELSE re_split_jp_decimal(t, from, i + 1)

convert_jp_value_num(t) ==
    IF \E i \in 1..Len(t) : IsJpDecimalMark(t[i])
    THEN LET parts == re_split_jp_decimal(t, 1, 1)
             integer_part == IF parts[1] # <<>> THEN parts[1] ELSE <<"0">>
             decimal_part == IF Len(parts) > 1 THEN parts[2] ELSE <<>>
             integer_value == calculate_jp_value(integer_part)
             decimal_str == convert_jp_pure_num(decimal_part)
         IN  IF decimal_str # <<>>
             THEN str(integer_value) \o <<".">> \o decimal_str
             ELSE str(integer_value)
    ELSE str(calculate_jp_value(t))

jp_percent == <<"k_pa", "k_bar", "k_se", "k_n", "k_to">>

\* t.replace(old, '') from position i
RECURSIVE remove_all(_, _, _)
remove_all(t, i, old) ==
    IF i > Len(t) THEN <<>>
    ELSE IF StartsWithAt(t, i, old) THEN remove_all(t, i + Len(old), old)
    ELSE <<t[i]>> \o remove_all(t, i + 1, old)

convert_jp_percent(t) ==
    IF Contains(t, jp_percent)
    THEN LET num_part == remove_all(t, 1, jp_percent)
         IN  convert_jp_value_num(num_part) \o <<"%">>
    ELSE t

\* convert_jp_time ----------------------------------------------------------

\* [零〇一二三四五六七八九十]
jp_time_class == {"K_rei", "K_maru", "K_1", "K_2", "K_3", "K_4", "K_5", "K_6", "K_7", "K_8", "K_9", "K_10"}

\* the position after the run of jp_time_class that starts at i
RECURSIVE SkipJpTimeDigits(_, _)
SkipJpTimeDigits(t, i) ==
    IF i <= Len(t) /\ t[i] \in jp_time_class THEN SkipJpTimeDigits(t, i + 1)
    ELSE i

\* a match of time_pattern starts at i: group 1 is the whole run of digits
\* at i (greedy, and what follows a shorter one is no 時), then 時, then
\* group 2, a whole run of at least one digit
jp_time_at(t, i) ==
    LET e1 == SkipJpTimeDigits(t, i)
    IN  /\ e1 > i
        /\ e1 <= Len(t) /\ t[e1] = "K_ji"
        /\ SkipJpTimeDigits(t, e1 + 1) > e1 + 1

\* the position after the match at i: an optional 分 follows group 2
jp_time_end(t, i) ==
    LET e2 == SkipJpTimeDigits(t, SkipJpTimeDigits(t, i) + 1)
    IN  IF e2 <= Len(t) /\ t[e2] = "K_fun" THEN e2 + 1 ELSE e2

\* re.search: the leftmost position a match starts at, 0 when there is none
jp_time_search(t) ==
    LET starts == {i \in 1..Len(t) : jp_time_at(t, i)}
    IN  IF starts = {} THEN 0 ELSE Min(starts)

\* re.sub(time_pattern, replacement, t) from position i
RECURSIVE jp_time_sub(_, _, _)
jp_time_sub(t, i, replacement) ==
    IF i > Len(t) THEN <<>>
    ELSE IF jp_time_at(t, i)
    THEN replacement \o jp_time_sub(t, jp_time_end(t, i), replacement)
    ELSE <<t[i]>> \o jp_time_sub(t, i + 1, replacement)

convert_jp_time(t) ==
    LET start == jp_time_search(t)
    IN  IF start # 0
        THEN LET e1 == SkipJpTimeDigits(t, start)
                 hour == calculate_jp_value(SubSeq(t, start, e1 - 1))
                 minute == calculate_jp_value(
                               SubSeq(t, e1 + 1, SkipJpTimeDigits(t, e1 + 1) - 1))
                 replacement == str(hour) \o <<":">> \o pad2(minute)
             IN  jp_time_sub(t, 1, replacement)
        ELSE t

\* japanese_to_num ----------------------------------------------------------

\* the character class of `pattern`
jp_pattern_class == {
    "K_rei", "K_maru", "K_1", "K_2", "K_3", "K_4", "K_5", "K_6", "K_7", "K_8",
    "K_9", "K_10", "K_100", "K_1000", "K_man", "K_oku", "D_1", "D_2", "D_3",
    "D_4", "D_5", "D_6", "D_7", "D_8", "D_9", "D_10", "h_i", "h_chi", "h_ni",
    "h_sa", "h_n", "h_yo", "h_go", "h_ro", "h_ku", "h_na", "h_ha", "h_ki",
    "h_yu", "h_u", "h_ji", "h_hi", "h_ya", "h_se", "h_ma", "h_o", "k_i",
    "k_chi", "k_ni", "k_sa", "k_n", "k_yo", "k_go", "k_ro", "k_ku", "k_na",
    "k_ha", "k_ki", "k_yu", "k_u", "k_ji", "k_hi", "k_ya", "k_se", "k_ma",
    "k_o", "h_shi", "k_ze", "K_ten", "k_mid" }

\* the character class of the test for a simple digit sequence
jp_pure_class == {
    "K_rei", "K_maru", "K_1", "K_2", "K_3", "K_4", "K_5", "K_6", "K_7", "K_8",
    "K_9", "k_ze", "k_ro", "K_ten", "k_mid" }

\* the position after the run of jp_pattern_class that starts at i
RECURSIVE SkipJpPattern(_, _)
SkipJpPattern(t, i) ==
    IF i <= Len(t) /\ t[i] \in jp_pattern_class THEN SkipJpPattern(t, i + 1)
    ELSE i

jp_replace_match(matched_text) ==
    IF \A i \in 1..Len(matched_text) : matched_text[i] \in jp_pure_class
    THEN convert_jp_pure_num(matched_text)
    ELSE convert_jp_value_num(matched_text)

\* re.sub(pattern, replace_match, t) from position i: every maximal run of
\* the class is a match
RECURSIVE jp_pattern_sub(_, _)
jp_pattern_sub(t, i) ==
    IF i > Len(t) THEN <<>>
    ELSE LET e == SkipJpPattern(t, i)
         IN  IF e > i
             THEN jp_replace_match(SubSeq(t, i, e - 1)) \o jp_pattern_sub(t, e)
             ELSE <<t[i]>> \o jp_pattern_sub(t, i + 1)

\* `idiom in text` for some idiom of jp_idioms
has_jp_idiom(t) == \E k \in 1..Len(jp_idioms) : Contains(t, jp_idioms[k])

\* japanese_to_num as one function, the composition its statements compute
japanese_to_num(t) ==
    IF t = <<>> THEN t
    ELSE IF has_jp_idiom(t) THEN t
    ELSE jp_pattern_sub(convert_jp_time(convert_jp_percent(t)), 1)

----------------------------------------------------------------------------
(* multilingual_itn.py *)

\* chinese_itn is not among the sources.  By the orchestrator's test case
\* ("一二三四五", "chinese") chinese_to_num writes the kanji digits as
\* digits; here it does so digit by digit and keeps every other character.
chinese_digits == <<"K_1", "K_2", "K_3", "K_4", "K_5", "K_6", "K_7", "K_8", "K_9">>

chinese_to_num(t) ==
    [i \in 1..Len(t) |->
        IF t[i] \in {"K_rei", "K_maru"} THEN "0"
        ELSE IF \E k \in 1..Len(chinese_digits) : chinese_digits[k] = t[i]
        THEN ToString(CHOOSE k \in 1..Len(chinese_digits) : chinese_digits[k] = t[i])
        ELSE t[i]]

\* [一-鿿]: the kanji; 〇 (U+3007) lies outside the range
is_ideograph(c) ==
    IsNamed(c) /\ SubSeq(c, 1, 2) \in {"K_", "D_"} /\ c # "K_maru"

\* [぀-ゟ゠-ヿ]: hiragana and katakana, ・ and ー among them
is_kana(c) == IsNamed(c) /\ SubSeq(c, 1, 2) \in {"h_", "k_"}

\* len(re.findall(r'[一-鿿]', text))
chinese_chars(t) == Cardinality({i \in 1..Len(t) : is_ideograph(t[i])})

\* len(re.findall(r'[぀-ゟ゠-ヿ]', text))
japanese_chars(t) == Cardinality({i \in 1..Len(t) : is_kana(t[i])})

\* len(re.findall(r'\b[a-zA-Z]+\b', text)): the runs of letters with \b on
\* both sides; a run next to a digit, '_' or a character of another script
\* has none
english_words(t) ==
    Cardinality({i \in 1..Len(t) :
        /\ IsAsciiLetter(t[i])
        /\ WordBoundary(t, i)
        /\ WordBoundary(t, SkipLetters(t, i))})

\* len(text.replace(' ', '')): the space is the only character left out
total_chars(t) == Cardinality({i \in 1..Len(t) : t[i] # " "})

\* the comparison with `>=` in the place of `>`
ratio_at_least(count, total, tenths) == 10 * count >= tenths * total

\* count / total > tenths / 10, as the float comparison decides it: the
\* quotient of two integers below 10^15 and the literal 0.3 (0.2) round to
\* the same float exactly when the ratio is 3/10 (2/10)
ratio_over(count, total, tenths) == 10 * count > tenths * total

\* the guard removed
no_characters_unguarded(t) == FALSE

\* `if total_chars == 0:`
no_characters(t) == total_chars(t) = 0

\* what a call ends with when it returns nothing
exceptions == {"ZeroDivisionError"}

\* the label returned, or the exception raised: `chinese_chars / total_chars`
\* raises ZeroDivisionError for a total of 0
detect_language(t) ==
    IF no_characters(t) THEN "unknown"
    ELSE IF total_chars(t) = 0 THEN "ZeroDivisionError"
    ELSE IF ratio_over(chinese_chars(t), total_chars(t), 3) THEN "chinese"
    ELSE IF ratio_over(japanese_chars(t), total_chars(t), 2) THEN "japanese"
    ELSE IF english_words(t) > 0 THEN "english"
    ELSE "mixed"

----------------------------------------------------------------------------
(* The texts the converters are called with. *)

\* the longest phrase, in words of en_vocabulary
MaxWords == 3

\* the longest phrase, in tokens of jp_vocabulary
MaxTokens == 3

\* sep.join(words)
RECURSIVE join(_, _)
join(sep, words) ==
    IF words = <<>> THEN <<>>
    ELSE IF Len(words) = 1 THEN words[1]
    ELSE words[1] \o sep \o join(sep, Tail(words))

\* the texts made of 1..n words of vocabulary, joined by sep
phrases(vocabulary, n, sep) ==
    UNION {{join(sep, words) : words \in [1..k -> vocabulary]} : k \in 1..n}

\* the words of 0..9 and of 10, 20, .. 90, each at the place of its value
unit_words == <<
    Chars("zero"), Chars("one"), Chars("two"), Chars("three"), Chars("four"),
    Chars("five"), Chars("six"), Chars("seven"), Chars("eight"), Chars("nine") >>

tens_words == <<
    Chars("ten"), Chars("twenty"), Chars("thirty"), Chars("forty"),
    Chars("fifty"), Chars("sixty"), Chars("seventy"), Chars("eighty"),
    Chars("ninety") >>

\* the words of 10..19, each at the place of its value
teen_words == <<
    Chars("ten"), Chars("eleven"), Chars("twelve"), Chars("thirteen"),
    Chars("fourteen"), Chars("fifteen"), Chars("sixteen"), Chars("seventeen"),
    Chars("eighteen"), Chars("nineteen") >>

\* the largest cardinal written out
EnMaxNumber == 130

\* the words of the cardinal r < 100
en_under_100(r) ==
    IF r < 10 THEN <<unit_words[r + 1]>>
    ELSE IF r < 20 THEN <<teen_words[r - 9]>>
    ELSE <<tens_words[r \div 10]>>
         \o (IF r % 10 # 0 THEN <<unit_words[(r % 10) + 1]>> ELSE <<>>)

\* the cardinal n < 1000 in words: [d hundred] [tens] [unit]
en_numeral(n) ==
    join(<<" ">>,
         (IF n >= 100 THEN <<unit_words[(n \div 100) + 1], Chars("hundred")>>
          ELSE <<>>)
         \o (IF n < 100 \/ n % 100 # 0 THEN en_under_100(n % 100) ELSE <<>>))

\* the cardinals written out, and the cardinals of the test cases
en_cardinals ==
    {en_numeral(n) : n \in 0..EnMaxNumber}
        \cup {Chars("two thousand twenty four"),
              Chars("one million five hundred thousand")}

\* a cardinal followed by 'percent'
en_percentages == {c \o Chars(" percent") : c \in en_cardinals}

\* the test cases of english_itn.py, the example of its docstring, and the
\* texts the specification gives values for
en_test_cases == {
    Chars("twenty three"), Chars("one hundred twenty three"),
    Chars("three point five"), Chars("fifty percent"), Chars("three thirty"),
    Chars("first place"), Chars("two thousand twenty four"),
    Chars("one million five hundred thousand"), Chars("zero point five"),
    Chars("twenty three point five"), Chars("I got fifty percent today"),
    Chars("give me a high five at three thirty"), <<>> }

\* every word of the tables alone ('trillion' set apart, see above)
en_single_words ==
    (DOMAIN en_num_mapper \cup DOMAIN en_value_mapper
        \cup {ordinal_map[k][1] : k \in 1..Len(ordinal_map)})
    \ {Chars("trillion")}

\* an hour word and one of the literal minute forms
en_clock_times ==
    {join(<<" ">>, <<time_hours[h], time_minutes[m]>>) :
        h \in 1..Len(time_hours), m \in 1..Len(time_minutes)}

\* number words, rule words, an ordinary word and the words of an idiom, the
\* first of them capitalised
en_vocabulary == {
    Chars("three"), Chars("thirty"), Chars("hundred"), Chars("point"),
    Chars("percent"), Chars("first"), Chars("cats"), Chars("High"),
    Chars("five") }

\* the largest integer part and the most fraction digits of the decimals
MaxDecimalInteger == 23

MaxFractionDigits == 2

\* the fractions: 1..MaxFractionDigits digits, each 0 or 5
fraction_digits == UNION {[1..k -> {0, 5}] : k \in 1..MaxFractionDigits}

\* the integer part i, a decimal marker and the digit words of ds
en_decimal(i, marker, ds) ==
    en_numeral(i) \o <<" ">> \o marker \o <<" ">>
        \o join(<<" ">>, [k \in 1..Len(ds) |-> unit_words[ds[k] + 1]])

en_decimals ==
    {en_decimal(i, marker, ds) :
        i \in 0..MaxDecimalInteger, marker \in {Chars("point"), Chars("dot")},
        ds \in fraction_digits}

\* number words in capitals and next to punctuation
en_cased == {
    Chars("Three cats"), Chars("FIRST place"), Chars("Point FIVE"),
    Chars("Twenty First"), Chars("three-four"), Chars("thirty,first"),
    Chars("the Third of five"), Chars("Second to the Twentieth"),
    Chars("Three thirty"), Chars("THREE THIRTY"), Chars("Ten o'clock"),
    Chars("FIFTY PERCENT"), Chars("Three Point Five") }

\* '<a> percent, <b> percent', two percentages of different values
repeated_values == {5, 10, 20}

en_percent_pair(a, b) ==
    en_numeral(a) \o Chars(" percent, ") \o en_numeral(b) \o Chars(" percent")

en_repeated ==
    {en_percent_pair(a, b) : a \in repeated_values, b \in repeated_values}

en_inputs ==
    en_test_cases \cup en_single_words \cup en_clock_times
        \cup en_cardinals \cup en_percentages \cup en_decimals \cup en_cased
        \cup en_repeated
        \cup phrases(en_vocabulary, MaxWords, <<" ">>)

\* the test cases of japanese_itn.py and the example of its docstring
jp_test_cases == {
    <<"K_1", "K_2", "K_3", "K_4", "K_5">>,
    <<"K_10", "K_2">>,
    <<"K_2", "K_10", "K_3">>,
    <<"K_1", "K_100", "K_2", "K_10", "K_3">>,
    <<"K_1", "K_1000", "K_2", "K_100", "K_3", "K_10", "K_4">>,
    <<"K_3", "K_ji", "K_2", "K_10", "K_fun">>,
    <<"K_5", "K_10", "k_pa", "k_bar", "k_se", "k_n", "k_to">>,
    <<"K_2", "K_ten", "K_5">>,
    <<"K_1", "K_man", "K_2", "K_1000", "K_3", "K_100", "K_4", "K_10", "K_5">>,
    <<"K_1", "K_2", "K_3", "K_4", "K_5", "K_6", "K_7", "K_8", "K_9", "K_10">>,
    <<"K_yaku", "K_5", "K_10", "k_pa", "k_bar", "k_se", "k_n", "k_to", "h_de", "h_su">>,
    <<"K_ima", "K_hi", "h_ha", "K_3", "K_ji", "K_2", "K_10", "K_fun", "h_de", "h_su">>,
    <<>> }

\* every key of the tables alone
jp_single_words == DOMAIN jp_num_mapper \cup DOMAIN jp_value_mapper

\* the largest numeral written out
JpMaxNumber == 130

\* the hours and the minutes of the clock times
JpMaxHour == 12

JpMaxMinute == 59

jp_digits == <<"K_1", "K_2", "K_3", "K_4", "K_5", "K_6", "K_7", "K_8", "K_9">>

\* the numeral of n < 1000 with the units: [d百][[d]十][d], 零 for 0
jp_numeral(n) ==
    IF n = 0 THEN <<"K_rei">>
    ELSE (IF n >= 100 THEN <<jp_digits[n \div 100], "K_100">> ELSE <<>>)
         \o (IF n % 100 >= 20 THEN <<jp_digits[(n % 100) \div 10]>> ELSE <<>>)
         \o (IF n % 100 >= 10 THEN <<"K_10">> ELSE <<>>)
         \o (IF n % 10 # 0 THEN <<jp_digits[n % 10]>> ELSE <<>>)

\* the number n < 100 digit by digit, 〇 for the digit 0
jp_positional(n) ==
    (IF n >= 10 THEN <<jp_digits[n \div 10]>> ELSE <<>>)
    \o (IF n % 10 = 0 THEN <<"K_maru">> ELSE <<jp_digits[n % 10]>>)

jp_numerals == {jp_numeral(n) : n \in 0..JpMaxNumber}

\* <h>時<m>分, the hour and the minute each with the units or digit by digit
jp_clock_time(hour, minute) == hour \o <<"K_ji">> \o minute \o <<"K_fun">>

jp_clock_times ==
    {jp_clock_time(hour, minute) :
        hour \in UNION {{jp_numeral(h), jp_positional(h)} : h \in 1..JpMaxHour},
        minute \in UNION {{jp_numeral(m), jp_positional(m)} : m \in 0..JpMaxMinute}}

\* a digit, a unit, the decimal and hour marks, an ordinary character, a
\* character of the pattern that is no numeral, the percent word and an idiom
jp_vocabulary == {
    <<"K_1">>, <<"K_10">>, <<"K_ten">>, <<"K_ji">>, <<"K_yaku">>, <<"h_chi">>,
    jp_percent, jp_idioms[1] }

\* a numeral followed by パーセント
jp_percentages == {jp_numeral(n) \o jp_percent : n \in 1..JpMaxNumber}

\* the integer part i, a decimal mark and the digits of ds
jp_decimal(i, mark, ds) ==
    jp_numeral(i) \o <<mark>>
        \o [k \in 1..Len(ds) |-> IF ds[k] = 0 THEN "K_maru" ELSE jp_digits[ds[k]]]

jp_decimals ==
    {jp_decimal(i, mark, ds) :
        i \in 0..MaxDecimalInteger, mark \in {"K_ten", "k_mid"},
        ds \in fraction_digits}

\* <a>時<m>分と<b>時<m>分, two times of different hours
jp_time_pair(a, b, m) ==
    jp_clock_time(jp_numeral(a), jp_numeral(m)) \o <<"h_to">>
        \o jp_clock_time(jp_numeral(b), jp_numeral(m))

jp_repeated ==
    {jp_time_pair(a, b, m) :
        a \in repeated_values, b \in repeated_values, m \in {10, 30}}

jp_inputs ==
    jp_test_cases \cup jp_single_words \cup jp_numerals \cup jp_clock_times
        \cup jp_percentages \cup jp_decimals \cup jp_repeated
        \cup phrases(jp_vocabulary, MaxTokens, <<>>)

----------------------------------------------------------------------------
(* The calls.  A client calls a converter with a text and calls it again   *)
(* with what it returned; a call goes through the statements of the        *)
(* converter one at a time.                                                *)

\* MultilingualITN.__init__: a flag is set when the import succeeds; with
\* the modules of python-service, chinese_itn is the one that is missing
loaded == [chinese |-> FALSE, japanese |-> TRUE, english |-> TRUE]

\* the threads that call process on one MultilingualITN
Callers == {"first", "second"}

\* the local variables of a call of process before the call
no_frame == [text |-> <<>>, language |-> "auto", original_text |-> <<>>]

\* no thread has called process
NoCallers ==
    /\ request = [c \in Callers |-> [text |-> <<>>, language |-> "auto"]]
    /\ frames = [c \in Callers |-> no_frame]
    /\ at = [c \in Callers |-> "idle"]
    /\ returned = [c \in Callers |-> <<>>]

\* SEMAPHORE = asyncio.Semaphore(3)
slots == 3

\* the requests the server's clients have open at one time
MaxRequests == 5
requests == 1..MaxRequests

\* no request has reached the server
NoRequests ==
    /\ SEMAPHORE = slots
    /\ handler = [r \in requests |-> "idle"]
    /\ response = [r \in requests |-> 0]

\* calculate_en_value has not been called, and the server has no request
NoOthers == evaluated = -1 /\ model = "loaded" /\ NoRequests

\* no call of process or detect_language is in progress
NoProcess ==
    /\ hint = "auto" /\ language = "auto"
    /\ ptext = <<>> /\ original_text = <<>>
    /\ ppc = "idle" /\ stage = "none"
    /\ ran = <<>> /\ logged = FALSE /\ label = "none"

Init ==
    /\ conv \in {"english", "japanese"}
    /\ orig \in (IF conv = "english" THEN en_inputs ELSE jp_inputs)
    /\ arg = orig
    /\ text = orig
    /\ pc = "start"
    /\ calls = 0
    /\ entry = "converter"
    /\ available = loaded
    /\ NoProcess
    /\ NoCallers
    /\ NoOthers

\* `return text`
Return(result) ==
    /\ text' = result
    /\ pc' = "done"
    /\ calls' = calls + 1
    /\ UNCHANGED <<conv, orig, arg>>
    /\ UNCHANGED pvars
    /\ UNCHANGED tvars
    /\ UNCHANGED xvars

\* an assignment to `text` and the step to the next statement
Assign(result, next) ==
    /\ text' = result
    /\ pc' = next
    /\ UNCHANGED <<conv, orig, arg, calls>>
    /\ UNCHANGED pvars
    /\ UNCHANGED tvars
    /\ UNCHANGED xvars

\* english_to_num: `if not text: return text`
EnReturnEmpty ==
    /\ conv = "english" /\ pc = "start"
    /\ text = <<>>
    /\ Return(text)

\* english_to_num: `for idiom in en_idioms: if idiom in text_lower: return text`
EnReturnIdiom ==
    /\ conv = "english" /\ pc = "start"
    /\ text # <<>>
    /\ has_en_idiom(text)
    /\ Return(text)

\* english_to_num: `text = convert_en_percent(text)`
EnPercent ==
    /\ conv = "english" /\ pc = "start"
    /\ text # <<>>
    /\ ~has_en_idiom(text)
    /\ Assign(convert_en_percent(text), "time")

\* english_to_num: `text = convert_en_time(text)`
EnTime ==
    /\ conv = "english" /\ pc = "time"
    /\ Assign(convert_en_time(text), "ordinal")

\* english_to_num: `text = convert_en_ordinal(text)`
EnOrdinal ==
    /\ conv = "english" /\ pc = "ordinal"
    /\ Assign(convert_en_ordinal(text), "generic")

\* english_to_num: `result = re.sub(pattern, replace_match, text, ...)` and
\* `return result`
EnGeneric ==
    /\ conv = "english" /\ pc = "generic"
    /\ Return(pattern_sub(text, 1))

\* japanese_to_num: `if not text: return text`
JpReturnEmpty ==
    /\ conv = "japanese" /\ pc = "start"
    /\ text = <<>>
    /\ Return(text)

\* japanese_to_num: `for idiom in jp_idioms: if idiom in text: return text`
JpReturnIdiom ==
    /\ conv = "japanese" /\ pc = "start"
    /\ text # <<>>
    /\ has_jp_idiom(text)
    /\ Return(text)

\* japanese_to_num: `text = convert_jp_percent(text)`
JpPercent ==
    /\ conv = "japanese" /\ pc = "start"
    /\ text # <<>>
    /\ ~has_jp_idiom(text)
    /\ Assign(convert_jp_percent(text), "time")

\* japanese_to_num: `text = convert_jp_time(text)`
JpTime ==
    /\ conv = "japanese" /\ pc = "time"
    /\ Assign(convert_jp_time(text), "generic")

\* japanese_to_num: `result = re.sub(pattern, replace_match, text)` and
\* `return result`
JpGeneric ==
    /\ conv = "japanese" /\ pc = "generic"
    /\ Return(jp_pattern_sub(text, 1))

\* the client calls the converter again, with the text the first call
\* returned
CallAgain ==
    /\ pc = "done" /\ calls = 1
    /\ arg' = text
    /\ pc' = "start"
    /\ entry = "converter"
    /\ UNCHANGED <<conv, orig, text, calls>>
    /\ UNCHANGED pvars
    /\ UNCHANGED tvars
    /\ UNCHANGED xvars

Next ==
    \/ EnReturnEmpty \/ EnReturnIdiom \/ EnPercent \/ EnTime \/ EnOrdinal
    \/ EnGeneric
    \/ JpReturnEmpty \/ JpReturnIdiom \/ JpPercent \/ JpTime \/ JpGeneric
    \/ CallAgain

Spec == Init /\ [][Next]_vars

\* the variables hold what the comments on them say
TypeOK ==
    /\ conv \in {"english", "japanese"}
    /\ pc \in {"start", "time", "ordinal", "generic", "done"}
    /\ calls \in 0..2
    /\ pc = "done" => calls >= 1

\* what a call returns is the converter's function of what it was called with
StagesCompose ==
    pc = "done" =>
        text = (IF conv = "english" THEN english_to_num(arg)
                ELSE japanese_to_num(arg))

----------------------------------------------------------------------------
(* MultilingualITN.process and detect_language, as a state machine. *)

\* the chain ignoring the flags
branch_unguarded(lang, flags) ==
    IF lang \in {"chinese", "japanese", "english", "mixed"} THEN lang
    ELSE "none"

\* the if/elif chain of process: the branch taken for a label
branch(lang, flags) ==
    IF lang = "chinese" /\ flags.chinese THEN "chinese"
    ELSE IF lang = "japanese" /\ flags.japanese THEN "japanese"
    ELSE IF lang = "english" /\ flags.english THEN "english"
    ELSE IF lang = "mixed" THEN "mixed"
    ELSE "none"

\* the converters of the mixed branch in another order
mixed_next_swapped(s) ==
    CASE s = "chinese" -> "english"
      [] s = "english" -> "japanese"
      [] s = "japanese" -> "end"

\* the mixed branch: the converter after s, "end" after the last
mixed_next(s) ==
    CASE s = "chinese" -> "japanese"
      [] s = "japanese" -> "english"
      [] s = "english" -> "end"

\* a step of process or detect_language that calls no converter
Step(newtext, newpc) ==
    /\ ptext' = newtext
    /\ ppc' = newpc
    /\ UNCHANGED cvars
    /\ UNCHANGED <<entry, available, hint, original_text, logged, label>>
    /\ UNCHANGED tvars
    /\ UNCHANGED xvars

\* process calls japanese_to_num or english_to_num with its text
Call(c, waiting) ==
    /\ conv' = c
    /\ orig' = ptext /\ arg' = ptext /\ text' = ptext
    /\ pc' = "start"
    /\ calls' = 0
    /\ ppc' = waiting
    /\ UNCHANGED <<entry, available, hint, language, ptext, original_text,
                   stage, ran, logged, label>>
    /\ UNCHANGED tvars
    /\ UNCHANGED xvars

\* the converter has returned: `text = self.<converter>(text)`
Returned(newpc) ==
    /\ pc = "done"
    /\ ptext' = text
    /\ ran' = Append(ran, conv)
    /\ ppc' = newpc
    /\ conv' = "none"
    /\ pc' = "idle"
    /\ UNCHANGED <<orig, arg, text, calls>>
    /\ UNCHANGED <<entry, available, hint, language, original_text, logged,
                   label>>
    /\ UNCHANGED tvars
    /\ UNCHANGED xvars

\* a call of detect_language by the client
Detect ==
    /\ entry = "detect_language" /\ ppc = "start"
    /\ LET outcome == detect_language(ptext)
       IN  IF outcome \in exceptions
           THEN label' = label /\ ppc' = "raised"
           ELSE label' = outcome /\ ppc' = "done"
    /\ UNCHANGED cvars
    /\ UNCHANGED <<entry, available, hint, language, ptext, original_text,
                   stage, ran, logged>>
    /\ UNCHANGED tvars
    /\ UNCHANGED xvars

\* process: `if not text: return text`
ProcReturnEmpty ==
    /\ entry = "process" /\ ppc = "start"
    /\ ptext = <<>>
    /\ Step(ptext, "done")
    /\ UNCHANGED <<language, stage, ran>>

\* process: `if language == "auto": language = self.detect_language(text)`;
\* an exception of detect_language ends the call of process as well
ProcDetect ==
    /\ entry = "process" /\ ppc = "start"
    /\ ptext # <<>>
    /\ hint = "auto"
    /\ LET outcome == detect_language(ptext)
       IN  IF outcome \in exceptions
           THEN language' = language /\ Step(ptext, "raised")
           ELSE language' = outcome /\ Step(ptext, "dispatch")
    /\ UNCHANGED <<stage, ran>>

\* process: a label given by the caller is used as it is
ProcKeepLanguage ==
    /\ entry = "process" /\ ppc = "start"
    /\ ptext # <<>>
    /\ hint # "auto"
    /\ language' = hint
    /\ Step(ptext, "dispatch")
    /\ UNCHANGED <<stage, ran>>

\* process: `text = self.chinese_to_num(text)`
ProcChinese ==
    /\ ppc = "dispatch"
    /\ branch(language, available) = "chinese"
    /\ ran' = Append(ran, "chinese")
    /\ Step(chinese_to_num(ptext), "log")
    /\ UNCHANGED <<language, stage>>

\* process: `text = self.japanese_to_num(text)` or
\* `text = self.english_to_num(text)`, the call
ProcCall ==
    /\ ppc = "dispatch"
    /\ branch(language, available) \in {"japanese", "english"}
    /\ Call(branch(language, available), "wait")

\* process: the converter of the branch has returned
ProcReturned ==
    /\ ppc = "wait"
    /\ Returned("log")
    /\ UNCHANGED stage

\* process: no branch of the chain is taken
ProcNoBranch ==
    /\ ppc = "dispatch"
    /\ branch(language, available) = "none"
    /\ Step(ptext, "log")
    /\ UNCHANGED <<language, stage, ran>>

\* process: `elif language == "mixed":`
ProcMixed ==
    /\ ppc = "dispatch"
    /\ branch(language, available) = "mixed"
    /\ stage' = "chinese"
    /\ Step(ptext, "mixed")
    /\ UNCHANGED <<language, ran>>

\* mixed branch: `if self.<converter>_available:` is false
ProcMixedSkip ==
    /\ ppc = "mixed" /\ stage # "end"
    /\ ~available[stage]
    /\ stage' = mixed_next(stage)
    /\ Step(ptext, "mixed")
    /\ UNCHANGED <<language, ran>>

\* mixed branch: `text = self.chinese_to_num(text)`
ProcMixedChinese ==
    /\ ppc = "mixed" /\ stage = "chinese"
    /\ available[stage]
    /\ ran' = Append(ran, "chinese")
    /\ stage' = mixed_next(stage)
    /\ Step(chinese_to_num(ptext), "mixed")
    /\ UNCHANGED language

\* mixed branch: `text = self.japanese_to_num(text)` or
\* `text = self.english_to_num(text)`, the call
ProcMixedCall ==
    /\ ppc = "mixed" /\ stage \in {"japanese", "english"}
    /\ available[stage]
    /\ Call(stage, "mixed_wait")

\* mixed branch: the converter has returned
ProcMixedReturned ==
    /\ ppc = "mixed_wait"
    /\ stage' = mixed_next(stage)
    /\ Returned("mixed")

\* mixed branch: past the last converter
ProcMixedEnd ==
    /\ ppc = "mixed" /\ stage = "end"
    /\ Step(ptext, "log")
    /\ UNCHANGED <<language, stage, ran>>

\* the log line printed for every call
differs_or_not(new, old) == TRUE

\* `if text != original_text:`
differs(new, old) == new # old

\* process: `if text != original_text: print(...)` and `return text`
ProcReturn ==
    /\ ppc = "log"
    /\ logged' = differs(ptext, original_text)
    /\ ppc' = "done"
    /\ UNCHANGED cvars
    /\ UNCHANGED <<entry, available, hint, language, ptext, original_text,
                   stage, ran, label>>
    /\ UNCHANGED tvars
    /\ UNCHANGED xvars

\* the test cases of multilingual_itn.py
itn_test_cases == {
    [text |-> <<"K_1", "K_2", "K_3", "K_4", "K_5">>,
     language |-> "chinese"],
    [text |-> Chars("twenty three point five"),
     language |-> "english"],
    [text |-> <<"K_3", "K_ji", "K_2", "K_10", "K_fun">>,
     language |-> "japanese"],
    [text |-> <<"K_1", "K_2", "K_3", " ", "a", "n", "d", " ", "t", "w", "e", "n", "t", "y", " ", "f", "o", "u", "r">>,
     language |-> "mixed"],
    [text |-> <<"K_100", "K_fun", "K_no", "K_5", "K_10">>,
     language |-> "auto"],
    [text |-> Chars("fifty percent"),
     language |-> "auto"],
    [text |-> <<"K_5", "K_10", "k_pa", "k_bar", "k_se", "k_n", "k_to">>,
     language |-> "auto"] }

MaxIdeographs == 3
MaxKana == 2
MaxLetters == 7
MaxWhitespace == 1

repeat(c, n) == [i \in 1..n |-> c]

\* spaces, tabs and newlines
whitespace == {" ", "\t", "\n"}

whitespace_runs == UNION {[1..k -> whitespace] : k \in 0..MaxWhitespace}

\* texts around the thresholds of detect_language: kanji, kana, whitespace,
\* a run of letters and a digit or none
detect_texts ==
    {repeat("K_1", i) \o repeat("h_chi", k) \o ws \o repeat("a", a) \o tail :
        i \in 0..MaxIdeographs, k \in 0..MaxKana, ws \in whitespace_runs,
        a \in 0..MaxLetters, tail \in {<<>>, <<"1">>}}

\* texts for process: the empty text, the test cases, an idiom of each
\* converter, and texts of two languages
process_texts ==
    {tc.text : tc \in itn_test_cases}
        \cup {<<>>, <<" ">>, Chars("high five"), jp_idioms[1],
              Chars("first place"), <<"t", "h", "r", "e", "e", "K_ten">>,
              <<"K_2", "K_ten", " ", "f", "i", "v", "e">>,
              jp_idioms[1] \o Chars(" twenty three"),
              Chars("high five ") \o <<"K_2", "K_10", "K_3">>}

\* the labels process is called with
hints == {"auto", "chinese", "japanese", "english", "mixed", "unknown",
          "chinese_traditional"}

flag_sets == [chinese : BOOLEAN, japanese : BOOLEAN, english : BOOLEAN]

\* no converter call is in progress
NoConverter ==
    /\ conv = "none" /\ orig = <<>> /\ arg = <<>> /\ text = <<>>
    /\ pc = "idle" /\ calls = 0

\* the client calls detect_language(ptext) or process(ptext, hint) on an
\* orchestrator whose converters loaded or failed to load
InitProcess ==
    /\ NoConverter
    /\ entry \in {"detect_language", "process"}
    /\ \/ /\ entry = "detect_language"
          /\ ptext \in detect_texts \cup process_texts
          /\ hint = "auto"
          /\ available = loaded
       \/ /\ entry = "process"
          /\ \/ ptext \in process_texts /\ hint \in hints
                /\ available \in flag_sets
             \/ ptext \in detect_texts /\ hint = "auto" /\ available = loaded
    /\ original_text = ptext
    /\ language = hint
    /\ ppc = "start" /\ stage = "none"
    /\ ran = <<>> /\ logged = FALSE /\ label = "none"
    /\ NoCallers
    /\ NoOthers

NextProcess ==
    \/ Detect
    \/ ProcReturnEmpty \/ ProcDetect \/ ProcKeepLanguage
    \/ ProcChinese \/ ProcCall \/ ProcReturned \/ ProcNoBranch
    \/ ProcMixed \/ ProcMixedSkip \/ ProcMixedChinese \/ ProcMixedCall
    \/ ProcMixedReturned \/ ProcMixedEnd
    \/ ProcReturn
    \/ EnReturnIdiom \/ EnPercent \/ EnTime \/ EnOrdinal \/ EnGeneric
    \/ JpReturnIdiom \/ JpPercent \/ JpTime \/ JpGeneric

SpecProcess == InitProcess /\ [][NextProcess]_vars

\* the variables of the orchestrator hold what the comments on them say
TypeOKProcess ==
    /\ entry \in {"converter", "detect_language", "process"}
    /\ conv \in {"none", "english", "japanese"}
    /\ ppc \in {"idle", "start", "dispatch", "wait", "mixed", "mixed_wait",
                "log", "done", "raised"}
    /\ stage \in {"none", "chinese", "japanese", "english", "end"}
    /\ label \in {"none", "unknown", "chinese", "japanese", "english", "mixed"}
    /\ logged \in BOOLEAN
    /\ available \in flag_sets
    /\ ppc \in {"wait", "mixed_wait"} <=> conv # "none"

----------------------------------------------------------------------------
(* The properties of the converters. *)

\* the first call of the converter c, with the text `orig`, has returned `text`
FirstReturned(c) == conv = c /\ pc = "done" /\ calls = 1

\* the second call of the converter c, with the text `arg` the first call
\* returned, has returned `text`
SecondReturned(c) == conv = c /\ pc = "done" /\ calls = 2

\* H:MM, the minute with two digits
clock(h, m) == str(h) \o <<":">> \o (IF m < 10 THEN <<"0">> ELSE <<>>) \o str(m)

\* C1: english_to_num gives a well-formed English cardinal phrase its decimal
\* value: 'one hundred twenty three' gives '123', 'two thousand twenty four'
\* gives '2024' and 'one million five hundred thousand' gives '1500000'.
C1_EnglishCardinals ==
    FirstReturned("english") =>
        /\ orig = Chars("one hundred twenty three") => text = Chars("123")
        /\ orig = Chars("two thousand twenty four") => text = Chars("2024")
        /\ orig = Chars("one million five hundred thousand")
               => text = Chars("1500000")

\* english_to_num('one hundred twenty three') has returned '1:100 23': the
\* time rule took 'one hundred' for an hour and its minutes
C1_Diverges ==
    /\ FirstReturned("english")
    /\ orig = Chars("one hundred twenty three")
    /\ text = Chars("1:100 23")

\* C2: japanese_to_num gives a well-formed Japanese numeral of digits and the
\* units 十/百/千/万 its decimal value: '一万二千三百四十五' gives '12345',
\* '二十三' gives '23', and every numeral [d百][d十][d] gives the number
\* it writes.
C2_JapaneseNumerals ==
    FirstReturned("japanese") =>
        /\ orig = <<"K_1", "K_man", "K_2", "K_1000", "K_3", "K_100", "K_4", "K_10", "K_5">>
               => text = Chars("12345")
        /\ orig = <<"K_2", "K_10", "K_3">> => text = Chars("23")
        /\ \A n \in 1..JpMaxNumber : orig = jp_numeral(n) => text = str(n)

\* japanese_to_num('一万二千三百四十五') has returned '2013045': each unit
\* multiplied all that was read since 万
C2_Diverges ==
    /\ FirstReturned("japanese")
    /\ orig = <<"K_1", "K_man", "K_2", "K_1000", "K_3", "K_100", "K_4", "K_10", "K_5">>
    /\ text = Chars("2013045")

\* the text holds an idiom of the converter's list: in English whatever the
\* case of its letters, in Japanese as the list writes it
contains_idiom(c, t) ==
    \/ c = "english"
       /\ \E k \in 1..Len(en_idioms) : Contains(lower(t), en_idioms[k])
    \/ c = "japanese"
       /\ \E k \in 1..Len(jp_idioms) : Contains(t, jp_idioms[k])

\* C3: a call with a text that holds a listed idiom (English: compared with
\* the lower-cased text; Japanese: as written) returns the text unchanged,
\* whatever number, percent, time or ordinal expression the text holds.
C3_IdiomVeto ==
    (pc = "done" /\ contains_idiom(conv, arg)) => text = arg

\* the idiom 'high five' capitalised, before a number word: english_to_num has
\* returned the text as it was
C3_Witness ==
    /\ FirstReturned("english")
    /\ orig = Chars("High five three")
    /\ text = orig

\* an English word that is no number word, no ordinal word and no rule word
en_ordinary(w) ==
    /\ lower(w) \notin DOMAIN en_value_mapper \cup DOMAIN en_num_mapper
    /\ lower(w) \notin {ordinal_map[k][1] : k \in 1..Len(ordinal_map)}
    /\ lower(w) # Chars("percent")

\* the text holds a number word followed by the word 'percent'
has_en_percentage(t) ==
    LET words == split(lower(t))
    IN  \E k \in 1..(Len(words) - 1) :
            /\ words[k] \in DOMAIN en_value_mapper
            /\ words[k + 1] = Chars("percent")

\* the characters the Japanese rules read: those of the keys of the tables,
\* of the percent word, and the clock marks
jp_rule_chars ==
    UNION {Range(w) : w \in DOMAIN jp_value_mapper \cup DOMAIN jp_num_mapper}
        \cup Range(jp_percent) \cup {"K_ji", "K_fun"}

\* the text holds a numeral character followed by パーセント
has_jp_percentage(t) ==
    \E i \in 1..Len(t) :
        /\ <<t[i]>> \in DOMAIN jp_value_mapper
        /\ StartsWithAt(t, i + 1, jp_percent)

\* C4: the percent rule replaces the number expression and the word
\* 'percent' / 'パーセント' alone: the ordinary words of an English text and
\* the ordinary characters of a Japanese text are in what the converter
\* returns.
C4_PercentKeepsOtherText ==
    /\ (FirstReturned("english") /\ has_en_percentage(orig)) =>
           \A w \in Range(split(orig)) : en_ordinary(w) => Contains(text, w)
    /\ (FirstReturned("japanese") /\ has_jp_percentage(orig)) =>
           \A c \in Range(orig) : c \notin jp_rule_chars => c \in Range(text)

\* english_to_num('cats three percent') has returned '3%'
C4_Diverges ==
    /\ FirstReturned("english")
    /\ orig = Chars("cats three percent")
    /\ text = Chars("3%")

\* the text holds no numeral token: in English no number word, ordinal word
\* or 'percent' ('point' and 'dot' may be there), in Japanese no key of the
\* tables and no パーセント
is_prose(c, t) ==
    \/ c = "english"
       /\ \A w \in DOMAIN en_value_mapper : ~Contains(lower(t), w)
       /\ \A k \in 1..Len(ordinal_map) : ~Contains(lower(t), ordinal_map[k][1])
       /\ ~Contains(lower(t), Chars("percent"))
    \/ c = "japanese"
       /\ \A w \in DOMAIN jp_value_mapper \cup DOMAIN jp_num_mapper :
              ~Contains(t, w)
       /\ ~Contains(t, jp_percent)

\* C5: ordinary prose is left untouched: a call with a text that holds no
\* numeral token returns the text unchanged.
C5_ProseUntouched ==
    (pc = "done" /\ calls = 1 /\ is_prose(conv, orig)) => text = orig

\* english_to_num('point') has returned '0'
C5_Diverges ==
    /\ FirstReturned("english")
    /\ orig = Chars("point")
    /\ text = Chars("0")

\* C6: japanese_to_num(japanese_to_num(text)) = japanese_to_num(text): the
\* second call returns the text the first call returned.
C6_JapaneseIdempotent ==
    SecondReturned("japanese") => text = arg

\* japanese_to_num('一点十') returned '1.十', and japanese_to_num of that
\* has returned '1.10'
C6_Diverges ==
    /\ SecondReturned("japanese")
    /\ orig = <<"K_1", "K_ten", "K_10">>
    /\ arg = <<"1", ".", "K_10">>
    /\ text = Chars("1.10")

\* C7: english_to_num(english_to_num(text)) = english_to_num(text): the
\* second call returns the text the first call returned, digits, 'H:MM',
\* 'N%' and 'Nth' included.
C7_EnglishIdempotent ==
    SecondReturned("english") => text = arg

\* the first call rewrote a percentage and the second call has returned what
\* it was given
C7_Witness ==
    /\ SecondReturned("english")
    /\ orig = Chars("I got fifty percent today")
    /\ arg = Chars("50% today")
    /\ text = arg

\* C8: every key w of jp_value_mapper is recognised: japanese_to_num(w) is
\* the decimal string of jp_value_mapper[w].
C8_JapaneseTableWords ==
    (FirstReturned("japanese") /\ orig \in DOMAIN jp_value_mapper)
        => text = str(jp_value_mapper[orig])

\* japanese_to_num('シチ'), a key of value 7, has returned 'シ0'
C8_Diverges ==
    /\ FirstReturned("japanese")
    /\ orig = <<"k_shi", "k_chi">>
    /\ text = <<"k_shi", "0">>

\* C9: for every single number word w of zero, one..nine, ten, twenty, ..,
\* ninety, english_to_num(w) is the decimal digit string of its value.
C9_SingleNumberWords ==
    FirstReturned("english") =>
        /\ \A k \in 1..Len(unit_words) : orig = unit_words[k] => text = str(k - 1)
        /\ \A k \in 1..Len(tens_words) : orig = tens_words[k] => text = str(10 * k)

\* english_to_num('ninety') has returned '90'
C9_Witness ==
    /\ FirstReturned("english")
    /\ orig = Chars("ninety")
    /\ text = Chars("90")

\* the words of the hours 1..12, each at the place of its value
hour_words == <<
    Chars("one"), Chars("two"), Chars("three"), Chars("four"), Chars("five"),
    Chars("six"), Chars("seven"), Chars("eight"), Chars("nine"), Chars("ten"),
    Chars("eleven"), Chars("twelve") >>

\* C10: for every hour word h of one..twelve, english_to_num of h with
\* ' thirty', ' fifteen' and ' forty five' is 'H:30', 'H:15' and 'H:45'; and
\* japanese_to_num of '<h>時<m>分' written with kanji digits is 'H:MM', the
\* minute with two digits.
C10_ClockTimes ==
    /\ FirstReturned("english") =>
           \A h \in 1..Len(hour_words) :
               /\ orig = hour_words[h] \o Chars(" thirty") => text = clock(h, 30)
               /\ orig = hour_words[h] \o Chars(" fifteen") => text = clock(h, 15)
               /\ orig = hour_words[h] \o Chars(" forty five") => text = clock(h, 45)
    /\ (FirstReturned("japanese") /\ orig \in jp_clock_times) =>
           \A h \in 1..JpMaxHour, m \in 0..JpMaxMinute :
               \A hour \in {jp_numeral(h), jp_positional(h)},
                  minute \in {jp_numeral(m), jp_positional(m)} :
                   orig = jp_clock_time(hour, minute) => text = clock(h, m)

\* japanese_to_num('三時三〇分') has returned '3:03'
C10_Diverges ==
    /\ FirstReturned("japanese")
    /\ orig = <<"K_3", "K_ji", "K_3", "K_maru", "K_fun">>
    /\ text = Chars("3:03")

\* C11: for a number expression followed by 'percent' / 'パーセント' the
\* converter returns the value of the expression followed by '%': for every
\* cardinal N the result is str(value(N)) + '%'.
C11_Percentages ==
    /\ (FirstReturned("english") /\ orig \in en_percentages) =>
           /\ \A n \in 1..EnMaxNumber :
                  orig = en_numeral(n) \o Chars(" percent")
                      => text = str(n) \o <<"%">>
           /\ orig = Chars("two thousand twenty four percent")
                  => text = Chars("2024%")
           /\ orig = Chars("one million five hundred thousand percent")
                  => text = Chars("1500000%")
    /\ (FirstReturned("japanese") /\ orig \in jp_percentages) =>
           \A n \in 1..JpMaxNumber :
               orig = jp_numeral(n) \o jp_percent => text = str(n) \o <<"%">>

\* japanese_to_num('一百二十三パーセント') has returned '1023%'
C11_Diverges ==
    /\ FirstReturned("japanese")
    /\ orig = <<"K_1", "K_100", "K_2", "K_10", "K_3", "k_pa", "k_bar", "k_se", "k_n", "k_to">>
    /\ text = Chars("1023%")

\* the decimal numeral of the integer i and the fraction digits ds
decimal_text(i, ds) ==
    str(i) \o <<".">> \o [k \in 1..Len(ds) |-> ToString(ds[k])]

\* C12: for an integer part I, a decimal marker ('point'/'dot'; '点'/'・')
\* and fraction digit words F the converter returns str(value(I)) + '.' +
\* digits(F), the fraction digit by digit: 'three point five' gives '3.5',
\* 'twenty three point five' '23.5', 'zero point five' '0.5', '二点五' '2.5'.
C12_Decimals ==
    /\ (FirstReturned("english") /\ orig \in en_decimals) =>
           \A i \in 0..MaxDecimalInteger, ds \in fraction_digits :
               \A marker \in {Chars("point"), Chars("dot")} :
                   orig = en_decimal(i, marker, ds) => text = decimal_text(i, ds)
    /\ (FirstReturned("japanese") /\ orig \in jp_decimals) =>
           \A i \in 0..MaxDecimalInteger, ds \in fraction_digits :
               \A mark \in {"K_ten", "k_mid"} :
                   orig = jp_decimal(i, mark, ds) => text = decimal_text(i, ds)

\* english_to_num('three point five zero') has returned '3 5:00': the time
\* rule took the fraction 'five zero' for an hour and its minutes
C12_Diverges ==
    /\ FirstReturned("english")
    /\ orig = Chars("three point five zero")
    /\ text = Chars("3 5:00")

----------------------------------------------------------------------------
(* The properties of the detector and the orchestrator. *)

\* detect_language(ptext), called by the client, has returned `label`
DetectReturned == entry = "detect_language" /\ ppc = "done"

\* process(original_text, hint) has returned `ptext`
ProcessReturned == entry = "process" /\ ppc = "done"

is_blank(t) == \A i \in 1..Len(t) : t[i] \in whitespace

not_whitespace(c) == c \notin whitespace

without_whitespace(t) == SelectSeq(t, not_whitespace)

\* C13: detect_language returns 'unknown' exactly when the text is empty or
\* holds only whitespace (spaces, tabs, newlines), and the label of a text is
\* the label of the text with its whitespace removed.
C13_UnknownIffBlank ==
    DetectReturned =>
        /\ label = "unknown" <=> is_blank(ptext)
        /\ label = detect_language(without_whitespace(ptext))

\* detect_language('\t') has returned 'mixed': a tab counts as a character
C13_Diverges ==
    /\ DetectReturned
    /\ ptext = <<"\t">>
    /\ label = "mixed"

\* the number of characters of t that the ratios are taken over
counted(t) == Len(t) - Cardinality({i \in 1..Len(t) : t[i] = " "})

\* C14: for a text with a character to count, detect_language returns
\* 'chinese' iff ideographs/total > 0.3; otherwise 'japanese' iff
\* kana/total > 0.2; otherwise 'english' iff an ASCII alphabetic word occurs;
\* otherwise 'mixed'.  The comparisons are strict: a ratio of exactly 0.3
\* (0.2) does not give 'chinese' ('japanese').
C14_StrictThresholds ==
    (DetectReturned /\ counted(ptext) > 0) =>
        LET total == counted(ptext)
            ideographs == chinese_chars(ptext)
            kana == japanese_chars(ptext)
            is_chinese == 10 * ideographs > 3 * total
            is_japanese == ~is_chinese /\ 10 * kana > 2 * total
            is_english == ~is_chinese /\ ~is_japanese /\ english_words(ptext) >= 1
        IN  /\ label = "chinese" <=> is_chinese
            /\ label = "japanese" <=> is_japanese
            /\ label = "english" <=> is_english
            /\ label = "mixed" <=> ~is_chinese /\ ~is_japanese /\ ~is_english
            /\ 10 * ideographs = 3 * total => label # "chinese"
            /\ 10 * kana = 2 * total => label # "japanese"

\* detect_language has returned 'english' for three kanji, a space and seven
\* letters: the ideograph ratio is exactly 0.3
C14_Witness ==
    /\ DetectReturned
    /\ ptext = repeat("K_1", 3) \o <<" ">> \o repeat("a", 7)
    /\ label = "english"

\* the converters applied one after the other, Chinese, Japanese, English,
\* each on the text the one before it returned, those with a false flag left out
chained(t, flags) ==
    LET after_chinese == IF flags.chinese THEN chinese_to_num(t) ELSE t
        after_japanese == IF flags.japanese THEN japanese_to_num(after_chinese)
                          ELSE after_chinese
    IN  IF flags.english THEN english_to_num(after_japanese)
        ELSE after_japanese

\* the converters with a true flag, in the fixed order
chain_order(flags) ==
    (IF flags.chinese THEN <<"chinese">> ELSE <<>>)
        \o (IF flags.japanese THEN <<"japanese">> ELSE <<>>)
        \o (IF flags.english THEN <<"english">> ELSE <<>>)

\* C15: process(text, 'mixed') returns the text that the available converters
\* give when applied in the order Chinese, Japanese, English, each on the
\* output of the one before; exactly the converters whose flag is false are
\* skipped.
C15_MixedChain ==
    (ProcessReturned /\ hint = "mixed") =>
        /\ ptext = chained(original_text, available)
        /\ original_text # <<>> => ran = chain_order(available)

\* process('three点', 'mixed') has returned '3.' with the Japanese and the
\* English converter available: the Japanese converter wrote the '.', and
\* the English one then read 'three.'
C15_Witness ==
    /\ ProcessReturned /\ hint = "mixed"
    /\ available.japanese /\ available.english
    /\ original_text = <<"t", "h", "r", "e", "e", "K_ten">>
    /\ ptext = Chars("3.")
    /\ Len(ran) >= 2

\* the converter of a language label
converter(lang, t) ==
    CASE lang = "chinese" -> chinese_to_num(t)
      [] lang = "japanese" -> japanese_to_num(t)
      [] lang = "english" -> english_to_num(t)

\* C16: for L in {chinese, japanese, english}, process(text, L) returns
\* converter_L(text) and runs no other converter when converter L is
\* available, and returns the text unchanged, running nothing, when it is
\* not; a label that matches no branch returns the text unchanged.
C16_SingleDispatch ==
    ProcessReturned =>
        /\ (hint \in {"chinese", "japanese", "english"} /\ available[hint]) =>
               /\ ptext = converter(hint, original_text)
               /\ \A i \in 1..Len(ran) : ran[i] = hint
               /\ original_text # <<>> => ran = <<hint>>
        /\ (hint \in {"chinese", "japanese", "english"} /\ ~available[hint]) =>
               ptext = original_text /\ ran = <<>>
        /\ hint \notin {"auto", "chinese", "japanese", "english", "mixed"} =>
               ptext = original_text /\ ran = <<>>

\* process('三時二十分', 'japanese') has returned '3:20' with all three
\* converters available, and only the Japanese one has run
C16_Witness ==
    /\ ProcessReturned /\ hint = "japanese"
    /\ available = [chinese |-> TRUE, japanese |-> TRUE, english |-> TRUE]
    /\ original_text = <<"K_3", "K_ji", "K_2", "K_10", "K_fun">>
    /\ ptext = Chars("3:20")
    /\ ran = <<"japanese">>

----------------------------------------------------------------------------
(* Concurrent calls of process on one MultilingualITN. *)

\* `text`, `language` and `original_text` are parameters and local
\* variables of process: each call has a frame of its own for them
frame_shared(c) == "first"

frame(c) == c

\* the texts and labels the callers call process with
concurrent_requests ==
    [text : {<<>>, Chars("fifty percent"), <<"K_3", "K_ji", "K_2", "K_10", "K_fun">>,
             <<"t", "h", "r", "e", "e", "K_ten">>},
     language : {"auto", "japanese", "mixed"}]

\* the local variable v of the call of c
local(c) == frames[frame(c)]

\* an assignment to local variables of the call of c, and its next statement
Assigns(c, new, next) ==
    /\ frames' = [frames EXCEPT ![frame(c)] = new]
    /\ at' = [at EXCEPT ![c] = next]
    /\ UNCHANGED <<request, returned>>
    /\ UNCHANGED cvars
    /\ UNCHANGED pvars
    /\ UNCHANGED xvars

\* `return text` of the call of c
Returns(c) ==
    /\ returned' = [returned EXCEPT ![c] = local(c).text]
    /\ at' = [at EXCEPT ![c] = "done"]
    /\ UNCHANGED <<request, frames>>
    /\ UNCHANGED cvars
    /\ UNCHANGED pvars
    /\ UNCHANGED xvars

\* a thread calls process(text, language): the arguments are bound
ThreadCall(c) ==
    /\ at[c] = "idle"
    /\ Assigns(c, [text |-> request[c].text,
                   language |-> request[c].language,
                   original_text |-> <<>>], "start")

\* `if not text: return text`
ThreadReturnEmpty(c) ==
    /\ at[c] = "start"
    /\ local(c).text = <<>>
    /\ Returns(c)

\* `if language == "auto": language = self.detect_language(text)` and
\* `original_text = text`
ThreadDetect(c) ==
    /\ at[c] = "start"
    /\ local(c).text # <<>>
    /\ Assigns(c, [local(c) EXCEPT
                       !.language = IF @ = "auto"
                                    THEN detect_language(local(c).text) ELSE @,
                       !.original_text = local(c).text],
               "dispatch")

\* the branch of one converter: `text = self.<converter>(text)`
ThreadConvert(c) ==
    /\ at[c] = "dispatch"
    /\ branch(local(c).language, available) \in {"chinese", "japanese", "english"}
    /\ Assigns(c, [local(c) EXCEPT
                       !.text = converter(local(c).language, local(c).text)],
               "log")

\* no branch is taken
ThreadNoBranch(c) ==
    /\ at[c] = "dispatch"
    /\ branch(local(c).language, available) = "none"
    /\ Assigns(c, local(c), "log")

\* `elif language == "mixed":`
ThreadMixed(c) ==
    /\ at[c] = "dispatch"
    /\ branch(local(c).language, available) = "mixed"
    /\ Assigns(c, local(c), "chinese")

\* mixed branch: `if self.<converter>_available: text = self.<converter>(text)`
ThreadMixedStep(c) ==
    /\ at[c] \in {"chinese", "japanese", "english"}
    /\ Assigns(c, [local(c) EXCEPT
                       !.text = IF available[at[c]] THEN converter(at[c], @)
                                ELSE @],
               IF mixed_next(at[c]) = "end" THEN "log" ELSE mixed_next(at[c]))

\* `if text != original_text: print(...)` and `return text`
ThreadReturn(c) ==
    /\ at[c] = "log"
    /\ Returns(c)

\* two threads are about to call process on one orchestrator
InitConcurrent ==
    /\ NoConverter
    /\ entry = "process"
    /\ available \in {loaded, [chinese |-> TRUE, japanese |-> TRUE, english |-> TRUE]}
    /\ NoProcess
    /\ request \in [Callers -> concurrent_requests]
    /\ frames = [c \in Callers |-> no_frame]
    /\ at = [c \in Callers |-> "idle"]
    /\ returned = [c \in Callers |-> <<>>]
    /\ NoOthers

NextConcurrent ==
    \E c \in Callers :
        \/ ThreadCall(c) \/ ThreadReturnEmpty(c) \/ ThreadDetect(c)
        \/ ThreadConvert(c) \/ ThreadNoBranch(c) \/ ThreadMixed(c)
        \/ ThreadMixedStep(c) \/ ThreadReturn(c)

SpecConcurrent == InitConcurrent /\ [][NextConcurrent]_vars

\* what process(t, lang) returns when it is the only call, by its statements
process_alone(t, lang, flags) ==
    IF t = <<>> THEN t
    ELSE LET detected == IF lang = "auto" THEN detect_language(t) ELSE lang
         IN  IF detected = "mixed" THEN chained(t, flags)
             ELSE IF detected \in {"chinese", "japanese", "english"}
                     /\ flags[detected]
             THEN converter(detected, t)
             ELSE t

\* the call of process running alone returns process_alone of its arguments
ProcessAloneIsSequential ==
    ProcessReturned => ptext = process_alone(original_text, hint, available)

\* C17: no call writes the availability flags (the tables and idiom lists
\* are constants of the module), so under every interleaving of the
\* statements of concurrent process calls on one instance each call returns
\* what it returns when it runs alone, and two calls with the same arguments
\* return the same text.
C17_ConcurrentCallsIndependent ==
    [][/\ available' = available
       /\ \A c \in Callers :
            at'[c] = "done" =>
                returned'[c] = process_alone(request[c].text,
                                             request[c].language, available)
       /\ \A c, d \in Callers :
            (at'[c] = "done" /\ at'[d] = "done" /\ request[c] = request[d]) =>
                returned'[c] = returned'[d]]_vars

\* both calls have returned, one '3:20' for '三時二十分' and the other '50%'
\* for 'fifty percent'
C17_Witness ==
    /\ at = [c \in Callers |-> "done"]
    /\ request["first"].text = <<"K_3", "K_ji", "K_2", "K_10", "K_fun">>
    /\ request["second"].text = Chars("fifty percent")
    /\ returned["first"] = Chars("3:20")
    /\ returned["second"] = Chars("50%")

----------------------------------------------------------------------------
(* The four functions on texts that hold no well-formed number. *)

malformed_texts == {
    \* the empty text and whitespace alone
    <<>>,
    Chars(" "),
    Chars("  "),
    <<"\t">>,
    <<"\n">>,
    <<" ", "\t", "\n">>,
    \* digits alone and punctuation alone
    Chars("0"),
    Chars("123"),
    Chars("."),
    Chars("..."),
    Chars("%"),
    Chars(":"),
    Chars("-"),
    Chars("?!"),
    \* a decimal marker with no digits
    Chars("point"),
    Chars("dot"),
    Chars("three point"),
    Chars("point point"),
    Chars("three point cats"),
    <<"K_ten">>,
    <<"k_mid">>,
    <<"K_2", "K_ten">>,
    <<"K_ten", "K_ten">>,
    \* 'percent' with no number
    Chars("percent"),
    Chars(" percent"),
    Chars("cats percent"),
    Chars("point percent"),
    <<"k_pa", "k_bar", "k_se", "k_n", "k_to">>,
    <<"K_yaku", "k_pa", "k_bar", "k_se", "k_n", "k_to">>,
    \* a scale word alone, and numerals that do not compose
    Chars("hundred"),
    Chars("thousand"),
    Chars("million"),
    Chars("hundred hundred"),
    Chars("thirty first"),
    Chars("twelve o'clock"),
    <<"K_100">>,
    <<"K_1000">>,
    <<"K_man">>,
    <<"K_oku">>,
    <<"K_10", "K_10">>,
    <<"K_ji", "K_fun">>,
    <<"K_3", "K_ji", "K_fun">> }

\* such texts, and an idiom of each converter
total_texts == malformed_texts \cup {Chars("high five"), jp_idioms[1]}

\* the client calls one of the four functions with such a text, on an
\* orchestrator without or with the Chinese converter
InitTotal ==
    /\ entry \in {"converter", "detect_language", "process"}
    /\ available \in {loaded, [loaded EXCEPT !.chinese = TRUE]}
    /\ NoCallers
    /\ NoOthers
    /\ \/ /\ entry = "converter"
          /\ conv \in {"english", "japanese"}
          /\ orig \in total_texts
          /\ arg = orig /\ text = orig
          /\ pc = "start" /\ calls = 0
          /\ NoProcess
       \/ /\ entry \in {"detect_language", "process"}
          /\ NoConverter
          /\ ptext \in total_texts
          /\ hint \in (IF entry = "process" THEN hints ELSE {"auto"})
          /\ original_text = ptext
          /\ language = hint
          /\ ppc = "start" /\ stage = "none"
          /\ ran = <<>> /\ logged = FALSE /\ label = "none"

NextTotal == Next \/ NextProcess

SpecTotal == InitTotal /\ [][NextTotal]_vars

\* a text: a sequence of characters
is_text(t) == \A i \in 1..Len(t) : Len(t[i]) >= 1

----------------------------------------------------------------------------
(* The words english_to_num leaves, and the ordinals. *)

\* the ordinal words of the table
ordinal_words == {ordinal_map[k][1] : k \in 1..Len(ordinal_map)}

\* the words english_to_num recognises as numerals
recognised_words ==
    DOMAIN en_value_mapper \cup {Chars("point"), Chars("dot")} \cup ordinal_words

\* w, in any letter case, is in t at i as a whole word
whole_word_at(t, i, w) ==
    /\ StartsWithAtIgnoreCase(t, i, w)
    /\ WordBoundary(t, i)
    /\ WordBoundary(t, i + Len(w))

\* C19: for a text that holds no listed idiom, what english_to_num returns
\* holds no whole-word occurrence, in any letter case, of a word of
\* en_value_mapper, of 'point' or 'dot', or of an ordinal word of the table.
C19_NoNumberWordLeft ==
    (FirstReturned("english") /\ ~contains_idiom("english", orig)) =>
        \A w \in recognised_words :
            \A i \in 1..Len(text) : ~whole_word_at(text, i, w)

\* english_to_num('the Third of five') has returned 'the 3rd of 5'
C19_Witness ==
    /\ FirstReturned("english")
    /\ orig = Chars("the Third of five")
    /\ text = Chars("the 3rd of 5")

\* the ordinal words in the order of their numbers: 1 .. 20, and 30
ordinal_names == <<
    Chars("first"), Chars("second"), Chars("third"), Chars("fourth"),
    Chars("fifth"), Chars("sixth"), Chars("seventh"), Chars("eighth"),
    Chars("ninth"), Chars("tenth"), Chars("eleventh"), Chars("twelfth"),
    Chars("thirteenth"), Chars("fourteenth"), Chars("fifteenth"),
    Chars("sixteenth"), Chars("seventeenth"), Chars("eighteenth"),
    Chars("nineteenth"), Chars("twentieth"), Chars("thirtieth") >>

\* the abbreviated form of the n-th: 1st, 2nd, 3rd, 4th .. 20th, 30th
abbreviated(n) ==
    str(n) \o (CASE n = 1 -> Chars("st")
                 [] n = 2 -> Chars("nd")
                 [] n = 3 -> Chars("rd")
                 [] OTHER -> Chars("th"))

\* the abbreviated form of the ordinal word w (in lower case)
abbreviation(w) ==
    LET k == CHOOSE j \in 1..Len(ordinal_names) : ordinal_names[j] = w
    IN  abbreviated(IF k = Len(ordinal_names) THEN 30 ELSE k)

is_ordinal(w) == \E j \in 1..Len(ordinal_names) : ordinal_names[j] = lower(w)

\* a word of letters that is no number word
is_plain_word(w) ==
    /\ \A i \in 1..Len(w) : IsAsciiLetter(w[i])
    /\ en_ordinary(w)

\* C20: for a text that holds no listed idiom and no 'percent',
\* english_to_num replaces every whole-word occurrence, in any letter case,
\* of an ordinal word of the table ('first' .. 'twentieth', 'thirtieth') by
\* its abbreviated form and leaves the words next to it that are no number
\* words unchanged; 'first place' gives '1st place'.
C20_Ordinals ==
    (/\ FirstReturned("english")
     /\ ~contains_idiom("english", orig)
     /\ ~Contains(lower(orig), Chars("percent"))) =>
        /\ orig = Chars("first place") => text = Chars("1st place")
        /\ \A j \in 1..Len(ordinal_names), i \in 1..Len(text) :
               ~whole_word_at(text, i, ordinal_names[j])
        /\ LET before == split(orig)
               after == split(text)
           IN  Len(before) = Len(after) =>
                   \A k \in 1..Len(before) :
                       /\ is_ordinal(before[k]) =>
                              after[k] = abbreviation(lower(before[k]))
                       /\ is_plain_word(before[k]) => after[k] = before[k]

\* english_to_num('Second to the Twentieth') has returned '2nd to the 20th'
C20_Witness ==
    /\ FirstReturned("english")
    /\ orig = Chars("Second to the Twentieth")
    /\ text = Chars("2nd to the 20th")

----------------------------------------------------------------------------
(* Scale words, the log line, groups and letter case. *)

\* C21: a scale word with no quantifier before it counts once: 'hundred'
\* gives '100', 'thousand' '1000', 'million' '1000000', '十' '10', '百' '100',
\* '千' '1000', '万' '10000'.
C21_BareScaleWords ==
    /\ FirstReturned("english") =>
           /\ orig = Chars("hundred") => text = Chars("100")
           /\ orig = Chars("thousand") => text = Chars("1000")
           /\ orig = Chars("million") => text = Chars("1000000")
    /\ FirstReturned("japanese") =>
           /\ orig = <<"K_10">> => text = Chars("10")
           /\ orig = <<"K_100">> => text = Chars("100")
           /\ orig = <<"K_1000">> => text = Chars("1000")
           /\ orig = <<"K_man">> => text = Chars("10000")

\* japanese_to_num('万') has returned '10000'
C21_Witness ==
    /\ FirstReturned("japanese")
    /\ orig = <<"K_man">>
    /\ text = Chars("10000")

\* C22: process prints its log line if and only if the text it returns
\* differs from the text it was given, and what it returns is the same
\* function of its arguments in both cases.
C22_LogIffChanged ==
    ProcessReturned =>
        /\ logged <=> ptext # original_text
        /\ ptext = process_alone(original_text, hint, available)

\* process('fifty percent', 'auto') has returned '50%' and printed the line
C22_Witness ==
    /\ ProcessReturned /\ hint = "auto"
    /\ original_text = Chars("fifty percent")
    /\ ptext = Chars("50%")
    /\ logged

(* calculate_en_value on cardinals of several groups. *)

\* the groups under one thousand a cardinal is written with
million_groups == {0, 1, 2}
thousand_groups == {0, 1, 5, 23, 500, 999}
unit_groups == {0, 7, 123, 999}

\* '<group> million <group> thousand <group>', a group of zero left out
scaled_cardinal(m, t, u) ==
    join(<<" ">>,
         (IF m > 0 THEN <<en_numeral(m), Chars("million")>> ELSE <<>>)
         \o (IF t > 0 THEN <<en_numeral(t), Chars("thousand")>> ELSE <<>>)
         \o (IF u > 0 THEN <<en_numeral(u)>> ELSE <<>>))

scaled_cardinals ==
    {scaled_cardinal(m, t, u) :
        m \in million_groups, t \in thousand_groups, u \in unit_groups}
    \ {<<>>}

\* the words after the decimal marker of a run, one or two of them
fraction_words == {
    Chars("zero"), Chars("five"), Chars("nine"), Chars("ten"),
    Chars("twenty"), Chars("hundred") }

fraction_runs ==
    {<<w>> : w \in fraction_words}
        \cup {<<v, w>> : v \in fraction_words, w \in fraction_words}

\* '<integer> point <words>' and '<integer> dot <words>'
decimal_runs ==
    {join(<<" ">>, <<n, marker>> \o ws) :
        n \in {Chars("three"), Chars("twenty three")},
        marker \in {Chars("point"), Chars("dot")},
        ws \in fraction_runs}

\* calculate_en_value(text) is called on a cardinal, or
\* convert_en_value_num(text) on a run with a decimal marker
InitEvaluate ==
    /\ \/ entry = "calculate_en_value" /\ orig \in scaled_cardinals
       \/ entry = "convert_en_value_num" /\ orig \in decimal_runs
    /\ available = loaded
    /\ conv = "none"
    /\ arg = orig
    /\ text = orig
    /\ pc = "start"
    /\ calls = 0
    /\ NoProcess
    /\ NoCallers
    /\ NoOthers

Evaluate ==
    /\ entry = "calculate_en_value"
    /\ pc = "start"
    /\ evaluated' = calculate_en_value(arg)
    /\ pc' = "done"
    /\ calls' = calls + 1
    /\ UNCHANGED <<conv, orig, arg, text>>
    /\ UNCHANGED pvars
    /\ UNCHANGED tvars
    /\ UNCHANGED svars

EvaluateNum ==
    /\ entry = "convert_en_value_num"
    /\ pc = "start"
    /\ text' = convert_en_value_num(arg)
    /\ pc' = "done"
    /\ calls' = calls + 1
    /\ UNCHANGED <<conv, orig, arg>>
    /\ UNCHANGED pvars
    /\ UNCHANGED tvars
    /\ UNCHANGED xvars

NextEvaluate == Evaluate \/ EvaluateNum

SpecEvaluate == InitEvaluate /\ [][NextEvaluate]_vars

Evaluated == entry = "calculate_en_value" /\ pc = "done"

\* C23: calculate_en_value returns the standard value of a cardinal made of
\* groups under one thousand, each followed by its scale word in descending
\* order: a later 'thousand' multiplies its own group only, not the total
\* accumulated so far.
C23_GroupsTimesScales ==
    Evaluated =>
        \A m \in million_groups, t \in thousand_groups, u \in unit_groups :
            orig = scaled_cardinal(m, t, u) =>
                evaluated = m * 1000000 + t * 1000 + u

\* 'one million five hundred thousand' evaluates to 1000500000
C23_Diverges ==
    /\ Evaluated
    /\ orig = Chars("one million five hundred thousand")
    /\ evaluated = 1000500000

(* Letter case, o'clock and the digits of a decimal. *)

\* C24: English conversion is case-insensitive: changing the letter case of
\* the words of the input does not change what english_to_num writes for
\* them ('Three thirty' and 'THREE THIRTY' give what 'three thirty' gives).
C24_CaseInsensitive ==
    FirstReturned("english") =>
        lower(text) = lower(english_to_num(lower(orig)))

\* 'Three thirty' becomes '33' where 'three thirty' becomes '3:30'
C24_Diverges ==
    /\ FirstReturned("english")
    /\ orig = Chars("Three thirty")
    /\ text = Chars("33")
    /\ english_to_num(lower(orig)) = Chars("3:30")

EvaluatedNum == entry = "convert_en_value_num" /\ pc = "done"

\* what follows the first '.' of t
fraction_of(t) ==
    IF \E i \in 1..Len(t) : t[i] = "."
    THEN LET i == CHOOSE i \in 1..Len(t) :
                      t[i] = "." /\ \A j \in 1..(i - 1) : t[j] # "."
         IN  SubSeq(t, i + 1, Len(t))
    ELSE <<>>

\* the words that follow the decimal marker of a run
words_after_marker(t) == split(re_split_decimal(lower(t), 1, 1)[2])

\* C26: in a decimal run every word after the decimal marker contributes
\* exactly one digit to the fractional part: the number of digits after '.'
\* equals the number of words after 'point' or 'dot'.
C26_OneDigitPerWord ==
    EvaluatedNum =>
        /\ \A i \in 1..Len(fraction_of(text)) : fraction_of(text)[i] \in DigitSet
        /\ Len(fraction_of(text)) = Len(words_after_marker(orig))

\* 'three point ten' has one word after the marker and two digits after '.'
C26_Diverges ==
    /\ EvaluatedNum
    /\ orig = Chars("three point ten")
    /\ text = Chars("3.10")

(* Idioms in mixed mode, clock times and repeated expressions. *)

\* the text holds a listed idiom of a converter that is available
has_idiom(t, flags) ==
    \/ flags.japanese /\ has_jp_idiom(t)
    \/ flags.english /\ has_en_idiom(t)

\* C27: in mixed mode the idiom veto is global: when the input holds a
\* listed idiom of any available converter, process(text, 'mixed') returns
\* the input unchanged, the parts another converter could convert included.
C27_GlobalVeto ==
    (ProcessReturned /\ hint = "mixed" /\ has_idiom(original_text, available))
        => ptext = original_text

\* a Japanese idiom followed by 'twenty three': the English converter
\* still writes '23'
C27_Diverges ==
    /\ ProcessReturned
    /\ hint = "mixed"
    /\ available = loaded
    /\ original_text = jp_idioms[1] \o Chars(" twenty three")
    /\ ptext = jp_idioms[1] \o Chars(" 23")

\* english_to_num has run convert_en_time, on a text without ':'
TimeRuleRan ==
    /\ conv = "english"
    /\ pc = "ordinal"
    /\ \A i \in 1..Len(orig) : orig[i] # ":"

\* the digits that end just before position i, and those that start after it
RECURSIVE digits_before(_, _)
digits_before(t, i) ==
    IF i > 1 /\ t[i - 1] \in DigitSet
    THEN digits_before(t, i - 1) \o <<t[i - 1]>>
    ELSE <<>>

RECURSIVE digits_after(_, _)
digits_after(t, i) ==
    IF i < Len(t) /\ t[i + 1] \in DigitSet
    THEN <<t[i + 1]>> \o digits_after(t, i + 1)
    ELSE <<>>

\* the ':' at position i stands in 'H:MM', H in 1..12 and MM in 00..59
is_clock_time(t, i) ==
    /\ \E h \in 1..12 : digits_before(t, i) = str(h)
    /\ Len(digits_after(t, i)) = 2
    /\ digits_after(t, i)[1] \in {"0", "1", "2", "3", "4", "5"}

\* C28: every 'H:MM' the English time rule writes has an hour between 1 and
\* 12 and a minute field of exactly two digits between 00 and 59; a pair of
\* words that cannot denote a clock time is not rewritten as a time.
C28_ClockTimes ==
    TimeRuleRan =>
        \A i \in 1..Len(text) : text[i] = ":" => is_clock_time(text, i)

\* 'one hundred' leaves the time rule as '1:100'
C28_Diverges ==
    /\ TimeRuleRan
    /\ orig = Chars("one hundred")
    /\ text = Chars("1:100")

\* C29: when one input holds two percent expressions (English) or two
\* 時/分 times (Japanese) of different values, each occurrence is replaced
\* by its own value, not by the value computed for the first occurrence.
C29_EachItsOwnValue ==
    \A a \in repeated_values, b \in repeated_values :
        /\ (FirstReturned("english") /\ orig = en_percent_pair(a, b)) =>
               text = str(a) \o Chars("%,") \o str(b) \o Chars("%")
        /\ \A m \in {10, 30} :
               (FirstReturned("japanese") /\ orig = jp_time_pair(a, b, m)) =>
                   text = str(a) \o <<":">> \o pad2(m) \o <<"h_to">>
                              \o str(b) \o <<":">> \o pad2(m)

\* 'ten percent, twenty percent' becomes '10%,10%'
C29_Diverges ==
    /\ FirstReturned("english")
    /\ orig = Chars("ten percent, twenty percent")
    /\ text = Chars("10%,10%")

\* 五時十分と十時十分 becomes '5:10と5:10'
C29_DivergesTime ==
    /\ FirstReturned("japanese")
    /\ orig = jp_time_pair(5, 10, 10)
    /\ text = Chars("5:10") \o <<"h_to">> \o Chars("5:10")

(* server.py: POST /transcribe/normal.  The handlers of the open requests  *)
(* take their steps in any order, which covers every schedule of the event *)
(* loop.                                                                   *)

\* the handler of r goes to `to`, with the status it answers (0: none yet)
Goto(r, to, status) ==
    /\ entry = "server"
    /\ handler' = [handler EXCEPT ![r] = to]
    /\ response' = [response EXCEPT ![r] = status]
    /\ UNCHANGED <<cvars, pvars, tvars, evaluated>>

\* `async with SEMAPHORE:` left without giving the slot back
release_lost(value) == value

\* `async with SEMAPHORE:` is left: __aexit__ calls SEMAPHORE.release()
release(value) == value + 1

\* the handler of r leaves the `async with` block with the status it answers
Leave(r, status) ==
    /\ SEMAPHORE' = release(SEMAPHORE)
    /\ Goto(r, "responded", status)
    /\ UNCHANGED model

\* a client sends a request: `if model is None: raise HTTPException(503)`
RejectNotLoaded(r) ==
    /\ handler[r] = "idle"
    /\ model = "None"
    /\ Goto(r, "responded", 503)
    /\ UNCHANGED <<model, SEMAPHORE>>

\* a client sends a request and the model is loaded
Receive(r) ==
    /\ handler[r] = "idle"
    /\ model # "None"
    /\ Goto(r, "reading", 0)
    /\ UNCHANGED <<model, SEMAPHORE>>

\* `if file_size > max_size: raise HTTPException(413)`
FileTooLarge(r) ==
    /\ handler[r] = "reading"
    /\ Goto(r, "responded", 413)
    /\ UNCHANGED <<model, SEMAPHORE>>

\* the whole file is read: the handler reaches `async with SEMAPHORE:`
FileRead(r) ==
    /\ handler[r] = "reading"
    /\ Goto(r, "acquire", 0)
    /\ UNCHANGED <<model, SEMAPHORE>>

\* `async with SEMAPHORE:` is entered; acquire() waits while the value is 0
Acquire(r) ==
    /\ handler[r] = "acquire"
    /\ SEMAPHORE > 0
    /\ SEMAPHORE' = SEMAPHORE - 1
    /\ Goto(r, "tempfile", 0)
    /\ UNCHANGED model

\* the temporary file is written and its cleanup is scheduled
TempFile(r) ==
    /\ handler[r] = "tempfile"
    /\ Goto(r, "inference", 0)
    /\ UNCHANGED <<model, SEMAPHORE>>

\* writing the temporary file raises, outside the try block
TempFileFails(r) ==
    /\ handler[r] = "tempfile"
    /\ Leave(r, 500)

\* `res = model(...)` gives a result: `return {...}`
Inference(r) ==
    /\ handler[r] = "inference"
    /\ Leave(r, 200)

\* `res = model(...)` raises or gives no result: an except clause raises
\* HTTPException, 503 after ImportError and 500 after the others
InferenceFails(r) ==
    /\ handler[r] = "inference"
    /\ \E raised \in {"FileNotFoundError", "ImportError", "Exception",
                      "HTTPException"} :
           Leave(r, IF raised = "ImportError" THEN 503 ELSE 500)

\* the client has its answer and may send a request again
Answered(r) ==
    /\ handler[r] = "responded"
    /\ Goto(r, "idle", 0)
    /\ UNCHANGED <<model, SEMAPHORE>>

\* the server has started: init_model() loaded the model or failed
InitServer ==
    /\ entry = "server"
    /\ available = loaded
    /\ NoConverter
    /\ NoProcess
    /\ NoCallers
    /\ evaluated = -1
    /\ model \in {"None", "loaded"}
    /\ NoRequests

NextServer ==
    \E r \in requests :
        \/ RejectNotLoaded(r) \/ Receive(r) \/ FileTooLarge(r) \/ FileRead(r)
        \/ Acquire(r) \/ TempFile(r) \/ TempFileFails(r) \/ Inference(r)
        \/ InferenceFails(r) \/ Answered(r)

SpecServer == InitServer /\ [][NextServer]_vars

\* the requests inside the block guarded by SEMAPHORE
inside == {r \in requests : handler[r] \in {"tempfile", "inference"}}

\* C30: under any interleaving of /transcribe/normal requests at most 3
\* are inside the block guarded by SEMAPHORE, and a request that leaves the
\* block gives its slot back on the success path and on every error path:
\* the free slots and the requests inside always add up to 3.
C30_AtMostThreeInside ==
    /\ Cardinality(inside) <= slots
    /\ SEMAPHORE + Cardinality(inside) = slots

\* an inference has failed, three requests are inside and one more waits
C30_Witness ==
    /\ Cardinality(inside) = slots
    /\ SEMAPHORE = 0
    /\ \E r \in requests : handler[r] = "responded" /\ response[r] = 500
    /\ \E r \in requests : handler[r] = "acquire"

====
